---- MODULE Spec2Model ----
(***************************************************************************)
(* AI request gateway of MyPdfWrapper: the request pipeline of             *)
(* AIProviderServiceBase.process_request (response cache, circuit breaker, *)
(* usage log, quota), the sliding-window rate limiter of                   *)
(* RedisConnectionManager.rate_limit_check, and the security validation of *)
(* AIProxyRateLimitMiddleware.                                             *)
(*                                                                         *)
(* Time is an integer clock.  Money is counted in micro-dollars, the       *)
(* precision calculate_cost rounds to.  Temperatures are hundredths.       *)
(***************************************************************************)
EXTENDS Integers, Sequences, FiniteSets, TLC

VARIABLES now, breaker, redisCache, dbCache, quota, log, task, nrq,
          consecFail, lastErr,
          zset, rlHist, rlLast,
          secIn, secOut,
          normIn, normOut,
          quotaReset, qLast,
          mw, mwZ,
          rlTxn, qTxn,
          http, rc, cbTxn

pipeVars == <<now, breaker, redisCache, dbCache, quota, log, task, nrq,
              consecFail, lastErr>>

\* the rate limiter: the sorted set of the key, the times of the calls that
\* were allowed, and the last call
rlVars == <<zset, rlHist, rlLast>>

\* the security validation: the request under validation and its verdict
secVars == <<secIn, secOut>>

\* the request fingerprint: a pair of calls and their fingerprints
normVars == <<normIn, normOut>>

\* the quota check: the reset columns of the quota rows and the last check
quotaVars == <<quotaReset, qLast>>

\* the middleware: the HTTP request in dispatch and the sorted sets of the
\* minute and the hour window of its rate-limit identifier
mwVars == <<mw, mwZ>>

\* concurrent callers: the calls of rate_limit_check in progress on one key,
\* and the database sessions of _update_quota_usage in progress on one row
txnVars == <<rlTxn, qTxn>>

\* the services beside the pipeline: the call of HttpService._make_request in
\* progress, the RedisConnectionManager, and the database sessions at work on
\* the breaker record of one provider
svcVars == <<http, rc, cbTxn>>

nonPipeVars == <<rlVars, secVars, normVars, quotaVars, mwVars, txnVars, svcVars>>

vars == <<pipeVars, rlVars, secVars, normVars, quotaVars, mwVars, txnVars, svcVars>>

(***************************************************************************)
(* Bounds of the model and scaled-down configuration values.               *)
(***************************************************************************)
MaxTime == 2
MaxRequests == 3
MaxConcRequests == 4
FailureThreshold == 2
RecoveryTimeout == 1
CacheTTL == 1
DailyLimit == 32
MonthlyLimit == 100
MaxTokensCap == 2
MaxRLTime == 4
MaxRLCalls == 5
RateLimit == 2
WindowSeconds == 2

Tasks == {1, 2}
NoTime == -1
NoUser == 0
Users == {NoUser, 1}
Missing == "missing"
NoInt == -1
DefaultModel == "claude-3-sonnet"

\* "claude" is ClaudeAIService.  "gemini" is declared in AIProvider but has
\* no service class: its adapter is any subclass of AIProviderServiceBase,
\* whose make_api_request may raise.
Providers == {"claude", "gemini"}

(***************************************************************************)
(* Requests and their validation.                                          *)
(***************************************************************************)
Roles == {"user", "assistant", "system"}

\* validate_request of the provider's service raises ValueError unless
\* ValidRequest holds, and returns the sanitized request otherwise.
ClampTemp(p, temp) ==
    LET hi == IF p = "claude" THEN 100 ELSE 200
    IN  IF temp < 0 THEN 0 ELSE IF temp > hi THEN hi ELSE temp

Min(a, b) == IF a < b THEN a ELSE b

SumContentLen(msgs) ==
    LET RECURSIVE S(_)
        S(i) == IF i = 0 THEN 0 ELSE S(i - 1) + (msgs[i].len \div 4)
    IN  S(Len(msgs))

ValidRequest(p, rq) ==
    /\ rq.has_messages
    /\ p = "claude" => \A i \in DOMAIN rq.messages : rq.messages[i].role \in Roles

validate_request(p, rq) ==
         [model |-> IF rq.model = Missing THEN
                        (IF p = "claude" THEN DefaultModel ELSE "gpt-3.5-turbo")
                    ELSE rq.model,
          messages |-> rq.messages,
          max_tokens |-> Min(IF rq.max_tokens = NoInt THEN 1000 ELSE rq.max_tokens,
                             MaxTokensCap),
          temperature |-> ClampTemp(p, IF rq.temperature = NoInt THEN 70
                                       ELSE rq.temperature),
          endpoint |-> IF p = "claude" THEN "/v1/messages" ELSE "/v1/chat/completions",
          estimated_input_tokens |-> IF p = "claude" THEN SumContentLen(rq.messages)
                                     ELSE NoInt]

\* round(temp * 10) / 10 on a temperature in hundredths: Python rounds the
\* half cases to the even tenth.  The result is in tenths.
RoundTenth(temp) ==
    LET q == temp \div 10
        r == temp % 10
    IN  IF r < 5 THEN q
        ELSE IF r > 5 THEN q + 1
        ELSE IF q % 2 = 0 THEN q ELSE q + 1

\* A faulty variant of the normalisation: the temperature is kept as sent.
_normalize_request_for_caching_raw(v) ==
    [model |-> v.model, messages |-> v.messages, max_tokens |-> v.max_tokens,
     endpoint |-> v.endpoint, estimated_input_tokens |-> v.estimated_input_tokens,
     temperature |-> v.temperature]

\* The validated request has no stream, user, top_p or penalty field left;
\* the temperature is replaced by its rounded value.
_normalize_request_for_caching(v) ==
    [model |-> v.model, messages |-> v.messages, max_tokens |-> v.max_tokens,
     endpoint |-> v.endpoint, estimated_input_tokens |-> v.estimated_input_tokens,
     temperature |-> RoundTenth(v.temperature)]

\* sha256 of "<provider>:<json of the normalized request>", taken as injective.
_generate_request_hash(p, v) == <<p, _normalize_request_for_caching(v)>>

Msg(role, len) == [role |-> role, len |-> len]

PipeRequest(tp, hm) ==
    [model |-> "m", has_messages |-> hm, messages |-> <<Msg("user", 5)>>,
     max_tokens |-> 1, temperature |-> tp, stream |-> FALSE, user |-> Missing]

\* The calls of process_request of the pipeline specification:
\* <<provider, user_id, request_data>>.
Arrivals ==
    { <<"claude", 1, PipeRequest(tp, TRUE)>> : tp \in {71, 74, 76} }
    \cup { <<"claude", NoUser, PipeRequest(71, TRUE)>>,
           <<"claude", 1, PipeRequest(71, FALSE)>>,
           <<"gemini", NoUser, PipeRequest(71, TRUE)>>,
           <<"gemini", 1, PipeRequest(71, TRUE)>> }

(***************************************************************************)
(* Cost.                                                                   *)
(***************************************************************************)
Usages == { [prompt_tokens |-> 0, completion_tokens |-> 0],
            [prompt_tokens |-> 1, completion_tokens |-> 1] }
NoUsage == [prompt_tokens |-> 0, completion_tokens |-> 0]

\* dollars per 1000 tokens in thousandths = micro-dollars per token
calculate_cost(p, usage) ==
    IF p = "claude"
    THEN usage.prompt_tokens * 8 + usage.completion_tokens * 24
    ELSE usage.prompt_tokens * 1 + usage.completion_tokens * 2

(***************************************************************************)
(* Circuit breaker records.                                                *)
(***************************************************************************)
NewBreaker ==
    [state |-> "closed", failure_count |-> 0, success_count |-> 0,
     last_failure_time |-> NoTime, last_success_time |-> NoTime,
     next_attempt_time |-> NoTime,
     failure_threshold |-> FailureThreshold,
     recovery_timeout_seconds |-> RecoveryTimeout]

\* A faulty variant of _is_circuit_open: an open record becomes half_open at
\* any check, the recovery time not being looked at.
_is_circuit_open_eager(cb, t) ==
    IF cb.state = "open"
    THEN <<FALSE, [cb EXCEPT !.state = "half_open"]>>
    ELSE <<FALSE, cb>>

\* A faulty variant of _is_circuit_open: a check that finds the circuit open
\* is counted as a failure.
_is_circuit_open_counting(cb, t) ==
    IF cb.state = "open"
    THEN IF cb.next_attempt_time # NoTime /\ t >= cb.next_attempt_time
         THEN <<FALSE, [cb EXCEPT !.state = "half_open"]>>
         ELSE <<TRUE, [cb EXCEPT !.failure_count = @ + 1, !.last_failure_time = t]>>
    ELSE <<FALSE, cb>>

\* _is_circuit_open: <<answer, record afterwards>>
_is_circuit_open(cb, t) ==
    IF cb.state = "open"
    THEN IF cb.next_attempt_time # NoTime /\ t >= cb.next_attempt_time
         THEN <<FALSE, [cb EXCEPT !.state = "half_open"]>>
         ELSE <<TRUE, cb>>
    ELSE <<FALSE, cb>>

\* A faulty variant of the success report: the record is closed whatever its
\* state was.
_record_circuit_breaker_success_closing(cb, t) ==
    [cb EXCEPT !.success_count = @ + 1, !.last_success_time = t,
               !.state = "closed", !.failure_count = 0]

\* A faulty variant of the success report: every success sets the failures
\* counted so far back to 0.
_record_circuit_breaker_success_forgiving(cb, t) ==
    LET c1 == [cb EXCEPT !.success_count = @ + 1, !.last_success_time = t,
                         !.failure_count = 0]
    IN  IF c1.state = "half_open" THEN [c1 EXCEPT !.state = "closed"] ELSE c1

_record_circuit_breaker_success(cb, t) ==
    LET c1 == [cb EXCEPT !.success_count = @ + 1, !.last_success_time = t]
    IN  IF c1.state = "half_open"
        THEN [c1 EXCEPT !.state = "closed", !.failure_count = 0]
        ELSE c1

\* A faulty variant of the failure report: the circuit opens only when the
\* count is above the threshold.
_record_circuit_breaker_failure_late(cb, t) ==
    LET c1 == [cb EXCEPT !.failure_count = @ + 1, !.last_failure_time = t]
    IN  IF c1.failure_count > c1.failure_threshold
        THEN [c1 EXCEPT !.state = "open",
                        !.next_attempt_time = t + c1.recovery_timeout_seconds]
        ELSE c1

_record_circuit_breaker_failure(cb, t) ==
    LET c1 == [cb EXCEPT !.failure_count = @ + 1, !.last_failure_time = t]
    IN  IF c1.failure_count >= c1.failure_threshold
        THEN [c1 EXCEPT !.state = "open",
                        !.next_attempt_time = t + c1.recovery_timeout_seconds]
        ELSE c1

(***************************************************************************)
(* Quota records.                                                          *)
(***************************************************************************)
NewQuota ==
    [present |-> TRUE, daily_limit_usd |-> DailyLimit, monthly_limit_usd |-> MonthlyLimit,
     daily_spent_usd |-> 0, monthly_spent_usd |-> 0,
     daily_requests |-> 0, monthly_requests |-> 0,
     is_daily_exceeded |-> FALSE, is_monthly_exceeded |-> FALSE]

\* no row for the (user, provider) pair
NoQuota == [NewQuota EXCEPT !.present = FALSE]

\* A faulty variant of _update_quota_usage: the exceeded flags are left as
\* they were.
_update_quota_usage_stale(q, cost) ==
    LET q0 == IF ~q.present THEN NewQuota ELSE q
    IN  [q0 EXCEPT !.daily_spent_usd = @ + cost,
                   !.monthly_spent_usd = @ + cost,
                   !.daily_requests = @ + 1,
                   !.monthly_requests = @ + 1]

_update_quota_usage(q, cost) ==
    LET q0 == IF ~q.present THEN NewQuota ELSE q
        q1 == [q0 EXCEPT !.daily_spent_usd = @ + cost,
                         !.monthly_spent_usd = @ + cost,
                         !.daily_requests = @ + 1,
                         !.monthly_requests = @ + 1]
    IN  [q1 EXCEPT !.is_daily_exceeded = q1.daily_spent_usd >= q1.daily_limit_usd,
                   !.is_monthly_exceeded = q1.monthly_spent_usd >= q1.monthly_limit_usd]

(***************************************************************************)
(* Response cache: Redis (fast store) and the ai_response_cache table.     *)
(***************************************************************************)
RedisGet(fp) ==
    { e \in redisCache : e.fp = fp /\ e.exp > now }

\* A faulty variant of the table lookup: expires_at is not looked at.
DbGet_any(fp) ==
    { e \in dbCache : e.fp = fp }

\* _get_cached_response, the fallback: the row of the hash if it has not
\* expired.
DbGet(fp) ==
    { e \in dbCache : e.fp = fp /\ e.expires_at > now }

RedisSetex(fp, data, cost) ==
    { e \in redisCache : e.fp # fp }
        \cup { [fp |-> fp, data |-> data, cost |-> cost, exp |-> now + CacheTTL] }

\* request_hash is unique: the insert of a second row for the same hash
\* fails and the failure is logged and swallowed.
DbInsert(fp, data, cost) ==
    IF \E e \in dbCache : e.fp = fp THEN dbCache
    ELSE dbCache \cup { [fp |-> fp, data |-> data, cost |-> cost,
                         expires_at |-> now + CacheTTL, hit_count |-> 0,
                         last_accessed |-> now] }

(***************************************************************************)
(* Tasks: one per request in flight.                                       *)
(***************************************************************************)
NoResult == [success |-> FALSE, error |-> "none", cached |-> FALSE, cost |-> 0,
             data |-> 0]

IdleTask ==
    [pc |-> "idle", rid |-> 0, provider |-> "claude", user |-> NoUser,
     fp |-> <<>>, called |-> FALSE, checked |-> FALSE, outcome |-> "none",
     usage |-> NoUsage, result |-> NoResult, trip |-> FALSE, probe |-> FALSE,
     qx |-> FALSE]

LogCount(rid) == Cardinality({ i \in DOMAIN log : log[i].rid = rid })

_log_request(rid, u, status, cost) ==
    Append(log, [rid |-> rid, user |-> u, status |-> status, cost |-> cost])

QuotaExceededNow(u, p) ==
    /\ quota[<<u, p>>].present
    /\ quota[<<u, p>>].daily_spent_usd >= quota[<<u, p>>].daily_limit_usd

(***************************************************************************)
(* Security validation, AIProxySecurityValidator and                       *)
(* AIProxyRateLimitMiddleware._perform_security_validation.  The content   *)
(* of a request is described by the set of the malicious_patterns that     *)
(* match it (numbered from 0 in list order), its length, and the number of *)
(* its words with the count of the most frequent one.                      *)
(***************************************************************************)
max_message_length == 32000

PatternIds == 0 .. 9

\* which of the words tested by analyze_threat_level occur in the text of
\* pattern i (pattern_desc.lower())
KeywordsIn(i) ==
    CASE i = 1 -> {"script"}
      [] i = 3 -> {"ignore"}
      [] i = 4 -> {"admin"}
      [] i = 6 -> {"password"}
      [] i = 8 -> {"exec"}
      [] OTHER -> {}

Levels == <<"low", "medium", "high", "critical">>

LevelIndex(l) == CHOOSE i \in DOMAIN Levels : Levels[i] = l

MaxLevel(a, b) == IF LevelIndex(a) >= LevelIndex(b) THEN a ELSE b

\* the if / elif chain run for a pattern that matched, on the level so far
EscalateForPattern(level, i) ==
    IF "injection" \in KeywordsIn(i) \/ "exec" \in KeywordsIn(i) THEN "critical"
    ELSE IF "script" \in KeywordsIn(i) \/ "admin" \in KeywordsIn(i) THEN "high"
    ELSE IF "ignore" \in KeywordsIn(i) \/ "password" \in KeywordsIn(i) THEN "medium"
    ELSE level

\* the loop over compiled_patterns, in list order
PatternLoop(matched) ==
    LET RECURSIVE L(_)
        L(n) == IF n = 0 THEN "low"
                ELSE IF (n - 1) \in matched THEN EscalateForPattern(L(n - 1), n - 1)
                ELSE L(n - 1)
    IN  L(10)

ExcessiveRepetition(c) == c.words > 10 /\ c.max_freq * 10 > c.words * 3

analyze_threat_level(c) ==
    LET l1 == PatternLoop(c.matched)
        l2 == IF c.length > max_message_length THEN MaxLevel(l1, "medium") ELSE l1
    IN  IF ExcessiveRepetition(c) THEN MaxLevel(l2, "medium") ELSE l2

\* A faulty variant of _perform_security_validation: a critical threat level
\* does not block the request.
_perform_security_validation_lenient(rq) ==
    IF rq.body = "empty"
    THEN [allowed |-> FALSE, reason |-> "empty_request", threat_level |-> "unknown"]
    ELSE IF rq.body = "badjson"
    THEN [allowed |-> FALSE, reason |-> "invalid_json", threat_level |-> "unknown"]
    ELSE IF ~rq.client_ok
    THEN [allowed |-> FALSE, reason |-> "blocked_client", threat_level |-> "unknown"]
    ELSE IF ~rq.structure_ok
    THEN [allowed |-> FALSE, reason |-> "invalid_structure", threat_level |-> "unknown"]
    ELSE [allowed |-> TRUE, reason |-> "none",
          threat_level |-> analyze_threat_level(rq.content)]

\* _perform_security_validation: the verdict on a request
_perform_security_validation(rq) ==
    IF rq.body = "empty"
    THEN [allowed |-> FALSE, reason |-> "empty_request", threat_level |-> "unknown"]
    ELSE IF rq.body = "badjson"
    THEN [allowed |-> FALSE, reason |-> "invalid_json", threat_level |-> "unknown"]
    ELSE IF ~rq.client_ok
    THEN [allowed |-> FALSE, reason |-> "blocked_client", threat_level |-> "unknown"]
    ELSE IF ~rq.structure_ok
    THEN [allowed |-> FALSE, reason |-> "invalid_structure", threat_level |-> "unknown"]
    ELSE IF analyze_threat_level(rq.content) = "critical"
    THEN [allowed |-> FALSE, reason |-> "critical_threat", threat_level |-> "critical"]
    ELSE [allowed |-> TRUE, reason |-> "none",
          threat_level |-> analyze_threat_level(rq.content)]

\* _create_security_error_response: the status code of a rejection
SecurityStatus(reason) ==
    IF reason = "blocked_client" THEN 403
    ELSE IF reason = "critical_threat" THEN 422
    ELSE 400

Contents ==
    [matched : SUBSET PatternIds,
     length : {100, max_message_length, max_message_length + 1},
     words : {5, 20}, max_freq : {5, 6, 7}]

SecRequests ==
    [body : {"ok"}, client_ok : BOOLEAN, structure_ok : BOOLEAN, content : Contents]
    \cup [body : {"empty", "badjson"}, client_ok : BOOLEAN, structure_ok : {TRUE},
          content : [matched : {{}}, length : {0}, words : {0}, max_freq : {0}]]

NoSecOut == [done |-> FALSE, allowed |-> FALSE, reason |-> "none",
             threat_level |-> "unknown", status |-> 0, analysed |-> FALSE,
             level |-> "low"]

SecIdle ==
    /\ secIn = [body |-> "empty", client_ok |-> TRUE, structure_ok |-> TRUE,
                content |-> [matched |-> {}, length |-> 0, words |-> 0, max_freq |-> 0]]
    /\ secOut = NoSecOut

\* The request bodies of the fingerprint specification.
NormRequests ==
    [model : {"m1", DefaultModel, Missing}, has_messages : {TRUE},
     messages : { <<Msg("user", 5)>>, <<Msg("user", 8)>> },
     max_tokens : {1}, temperature : {71, 74, 75, 76, 120, 170},
     stream : BOOLEAN, user : {Missing, "u1"}]

NormProviders == {"claude", "openai"}

NoNormOut == [done |-> FALSE, fa |-> <<>>, fb |-> <<>>, na |-> <<>>, nb |-> <<>>]

NormIdle ==
    /\ normIn = [pa |-> "claude", pb |-> "claude",
                 a |-> PipeRequest(71, TRUE), b |-> PipeRequest(71, TRUE)]
    /\ normOut = NoNormOut

(***************************************************************************)
(* The quota check of the middleware on one quota row.                     *)
(***************************************************************************)
\* the result of the last call of _check_quota_limits
NoQuotaCheck == [called |-> FALSE, allowed |-> FALSE, at |-> 0,
                 reset_before |-> NoTime, monthly_before |-> 0,
                 daily_after |-> 0, requests_after |-> 0]

QuotaIdle ==
    /\ quotaReset = [k \in Users \X Providers |-> NoTime]
    /\ qLast = NoQuotaCheck

(***************************************************************************)
(* The HTTP request in AIProxyRateLimitMiddleware.dispatch.                *)
(***************************************************************************)
\* a result of rate_limit_check, before any call
NoRateResult == [allowed |-> FALSE, count |-> 0, remaining |-> 0, reset_time |-> 0,
                 failed |-> FALSE, called |-> FALSE]

\* pc: the place of the request in dispatch; classified: the threat level
\* of the verdict of _perform_security_validation; rate: the result of
\* _check_rate_limits; in_except: dispatch is in its except branch;
\* forwards: the calls of call_next; started: the number of process_request
\* calls before the current call_next; status: the status of the response;
\* charged: the cost of the successful provider calls made for the request;
\* reason: the reason of a rejection by the security validation.
NoMw ==
    [pc |-> "idle", id |-> 0, classified |-> "low",
     rate |-> [allowed |-> FALSE],
     minute_result |-> NoRateResult, hour_result |-> NoRateResult,
     in_except |-> FALSE, forwards |-> 0, started |-> 0, status |-> 0,
     quota_checked |-> FALSE, spent_at_check |-> 0, charged |-> 0,
     reason |-> "none"]

MwIdle ==
    /\ mw = NoMw
    /\ mwZ = [w \in {"minute", "hour"} |-> {}]

\* a call of rate_limit_check in progress: its place, the timestamp it took
\* and the count zcard gave it; calls: the calls started so far
NoRLCall == [pc |-> "idle", now |-> 0, current_count |-> 0]

\* a session of _update_quota_usage: its place, the row it selected and the
\* cost it adds; commits and total: the sessions committed so far and the sum
\* of their costs
NoQuotaTxn == [pc |-> "idle", row |-> NoQuota, cost |-> 0]

TxnIdle ==
    /\ rlTxn = [call |-> [c \in Tasks |-> NoRLCall], calls |-> 0]
    /\ qTxn = [session |-> [c \in Tasks |-> NoQuotaTxn], commits |-> 0, total |-> 0]

\* no call of _make_request: its place, the method and max_retries of the
\* call, the loop variable attempt, the outcome of the attempt before
\* (cause), and the status of the HTTPException raised
NoHttp ==
    [pc |-> "idle", method |-> "GET", max_retries |-> 0, attempt |-> 0,
     cause |-> "none", status_code |-> 0]

\* RedisConnectionManager.__init__, with what the last call of get_client
\* met and did: the number of the call (calls), its time (at), whether it
\* found the circuit open, the results of the calls of initialize it made
\* (inits) and whether it returned a client
NoRedisManager ==
    [is_connected |-> FALSE, health_monitor |-> FALSE, last_health_check |-> NoTime,
     circuit_open |-> FALSE, circuit_failures |-> 0, circuit_last_failure |-> NoTime,
     calls |-> 0, at |-> NoTime, found_open |-> FALSE, inits |-> <<>>,
     client |-> FALSE]

\* a database session at work on a breaker record: its place, the operation
\* it runs and the record it selected
NoBreakerTxn == [pc |-> "idle", op |-> "none", row |-> NewBreaker]

SvcIdle ==
    /\ http = NoHttp
    /\ rc = NoRedisManager
    /\ cbTxn = [session |-> [c \in Tasks |-> NoBreakerTxn], ops |-> 0]

RLIdle ==
    /\ zset = {}
    /\ rlHist = <<>>
    /\ rlLast = [called |-> FALSE, allowed |-> FALSE, at |-> 0, prior |-> 0,
                 count |-> 0, remaining |-> 0, reset_time |-> 0]

PipeInit ==
    /\ now = 0
    /\ breaker = [p \in Providers |-> NewBreaker]
    /\ redisCache = {}
    /\ dbCache = {}
    /\ quota = [k \in Users \X Providers |-> NoQuota]
    /\ log = <<>>
    /\ task = [t \in Tasks |-> IdleTask]
    /\ nrq = 0
    /\ consecFail = [p \in Providers |-> 0]
    /\ lastErr = [p \in Providers |-> NoTime]

Init == PipeInit /\ RLIdle /\ SecIdle /\ NormIdle /\ QuotaIdle /\ MwIdle /\ TxnIdle /\ SvcIdle

\* process_request, steps 1 and 2: validate_request and the request hash.
Start(t, p, u, rq, maxrq) ==
    /\ task[t].pc \in {"idle", "done"}
    /\ nrq < maxrq
    /\ nrq' = nrq + 1
    /\ LET v == validate_request(p, rq)
           base == [IdleTask EXCEPT !.rid = nrq + 1, !.provider = p, !.user = u,
                        !.qx = QuotaExceededNow(u, p)]
       IN  IF ~ValidRequest(p, rq)
           THEN task' = [task EXCEPT ![t] =
                    [base EXCEPT !.pc = "done",
                                 !.result = [NoResult EXCEPT !.error = "internal_error"]]]
           ELSE task' = [task EXCEPT ![t] =
                    [base EXCEPT !.pc = "cache", !.fp = _generate_request_hash(p, v)]]
    /\ UNCHANGED <<now, breaker, redisCache, dbCache, quota, log, consecFail, lastErr>>
    /\ UNCHANGED nonPipeVars

\* A faulty variant of the cached branch: the cached cost is also committed to
\* the quota.
CachedBranch_charged(t, e) ==
    /\ log' = _log_request(task[t].rid, task[t].user, "cached", 0)
    /\ task' = [task EXCEPT ![t].pc = "done",
                  ![t].result = [success |-> TRUE, error |-> "none",
                                 cached |-> TRUE, cost |-> e.cost, data |-> e.data]]
    /\ quota' = IF task[t].user # NoUser
                THEN [quota EXCEPT ![<<task[t].user, task[t].provider>>] =
                                      _update_quota_usage(@, e.cost)]
                ELSE quota
    /\ UNCHANGED breaker

\* process_request, the branch taken when _get_cached_response found the
\* entry e: one usage log row with status CACHED, and the response.
CachedBranch(t, e) ==
    /\ log' = _log_request(task[t].rid, task[t].user, "cached", 0)
    /\ task' = [task EXCEPT ![t].pc = "done",
                  ![t].result = [success |-> TRUE, error |-> "none",
                                 cached |-> TRUE, cost |-> e.cost, data |-> e.data]]
    /\ UNCHANGED <<breaker, quota>>

\* process_request, step 3: _get_cached_response (Redis first, then the
\* table, whose row gets its hit counted) and the cached branch.
CacheLookup(t) ==
    /\ task[t].pc = "cache"
    /\ LET fp == task[t].fp
           r == RedisGet(fp)
           d == DbGet(fp)
       IN  IF r # {}
           THEN \E e \in r : CachedBranch(t, e) /\ dbCache' = dbCache
           ELSE IF d # {}
           THEN \E e \in d :
                /\ dbCache' = (dbCache \ {e}) \cup
                       { [e EXCEPT !.hit_count = @ + 1, !.last_accessed = now] }
                /\ CachedBranch(t, e)
           ELSE /\ task' = [task EXCEPT ![t].pc = "breaker"]
                /\ UNCHANGED <<dbCache, log, breaker, quota>>
    /\ UNCHANGED <<now, redisCache, nrq, consecFail, lastErr>>
    /\ UNCHANGED nonPipeVars

\* FailureThreshold or more provider calls in a row have errored for p and
\* the recovery timeout has not elapsed since the last of them.
Tripped(p) ==
    /\ consecFail[p] >= FailureThreshold
    /\ now < lastErr[p] + RecoveryTimeout

\* A faulty variant of the breaker check: the record looked up is not
\* selected by the provider of the service (an open record of any provider is
\* taken when there is one).
BreakerCheck_shared(t) ==
    /\ task[t].pc = "breaker"
    /\ LET p == task[t].provider
           looked == IF \E q \in Providers : breaker[q].state = "open"
                     THEN CHOOSE q \in Providers : breaker[q].state = "open"
                     ELSE p
           res == _is_circuit_open(breaker[looked], now)
       IN  /\ breaker' = [breaker EXCEPT ![looked] = res[2]]
           /\ IF res[1]
              THEN task' = [task EXCEPT ![t].pc = "done", ![t].checked = TRUE,
                              ![t].trip = Tripped(p),
                              ![t].result = [NoResult EXCEPT
                                                !.error = "service_unavailable"]]
              ELSE task' = [task EXCEPT ![t].pc = "call", ![t].checked = TRUE,
                              ![t].trip = Tripped(p),
                              ![t].probe = (res[2].state = "half_open")]
    /\ UNCHANGED <<now, redisCache, dbCache, quota, log, nrq, consecFail, lastErr>>
    /\ UNCHANGED nonPipeVars

\* process_request, step 4: the circuit breaker check.
BreakerCheck(t) ==
    /\ task[t].pc = "breaker"
    /\ LET p == task[t].provider
           res == _is_circuit_open(breaker[p], now)
       IN  /\ breaker' = [breaker EXCEPT ![p] = res[2]]
           /\ IF res[1]
              THEN task' = [task EXCEPT ![t].pc = "done", ![t].checked = TRUE,
                              ![t].trip = Tripped(p),
                              ![t].result = [NoResult EXCEPT
                                                !.error = "service_unavailable"]]
              ELSE task' = [task EXCEPT ![t].pc = "call", ![t].checked = TRUE,
                              ![t].trip = Tripped(p),
                              ![t].probe = (res[2].state = "half_open")]
    /\ UNCHANGED <<now, redisCache, dbCache, quota, log, nrq, consecFail, lastErr>>
    /\ UNCHANGED nonPipeVars

\* What make_api_request of the provider's service can do when the upstream
\* call goes well ("ok") or errors: ClaudeAIService catches every exception
\* and returns a failure result ("failed"); the abstract interface also lets
\* an exception escape ("raised").
Outcomes(p) == IF p = "claude" THEN {"ok", "failed"} ELSE {"ok", "failed", "raised"}

\* process_request, step 5, first half: the provider is contacted.
ApiCall(t, oc, us) ==
    /\ task[t].pc = "call"
    /\ oc \in Outcomes(task[t].provider)
    /\ oc # "ok" => us = NoUsage
    /\ task' = [task EXCEPT ![t].pc = "record", ![t].called = TRUE,
                            ![t].outcome = oc, ![t].usage = us]
    /\ UNCHANGED <<now, breaker, redisCache, dbCache, quota, log, nrq,
                   consecFail, lastErr>>
    /\ UNCHANGED nonPipeVars

\* process_request, step 5, second half: the outcome reaches
\* _make_api_request_with_circuit_breaker; an exception is reported to the
\* breaker as a failure and ends the request in the except branch, a returned
\* result (success or failure alike) is reported as a success.
Record(t) ==
    /\ task[t].pc = "record"
    /\ LET p == task[t].provider
       IN  /\ IF task[t].outcome = "raised"
              THEN /\ breaker' = [breaker EXCEPT ![p] =
                                    _record_circuit_breaker_failure(breaker[p], now)]
                   /\ log' = _log_request(task[t].rid, task[t].user, "failed", 0)
                   /\ task' = [task EXCEPT ![t].pc = "done",
                                 ![t].result = [NoResult EXCEPT
                                                   !.error = "internal_error"]]
              ELSE /\ breaker' = [breaker EXCEPT ![p] =
                                    _record_circuit_breaker_success(breaker[p], now)]
                   /\ log' = log
                   /\ task' = [task EXCEPT ![t].pc = "finish"]
           /\ IF task[t].outcome = "ok"
              THEN /\ consecFail' = [consecFail EXCEPT ![p] = 0]
                   /\ lastErr' = lastErr
              ELSE /\ consecFail' = [consecFail EXCEPT ![p] = @ + 1]
                   /\ lastErr' = [lastErr EXCEPT ![p] = now]
    /\ UNCHANGED <<now, redisCache, dbCache, quota, nrq>>
    /\ UNCHANGED nonPipeVars

\* A faulty variant of steps 6 to 9: the response is cached whether or not
\* the provider call succeeded.
Finish_cache_failed(t) ==
    /\ task[t].pc = "finish"
    /\ LET p == task[t].provider
           u == task[t].user
           ok == task[t].outcome = "ok"
           cost == calculate_cost(p, task[t].usage)
       IN  /\ IF TRUE
              THEN /\ \E redis_ok \in BOOLEAN :
                         redisCache' = IF redis_ok
                                       THEN RedisSetex(task[t].fp, task[t].rid, cost)
                                       ELSE redisCache
                   /\ dbCache' = DbInsert(task[t].fp, task[t].rid, cost)
              ELSE UNCHANGED <<redisCache, dbCache>>
           /\ log' = _log_request(task[t].rid, u, IF ok THEN "success" ELSE "failed", cost)
           /\ IF ok /\ u # NoUser
              THEN quota' = [quota EXCEPT ![<<u, p>>] = _update_quota_usage(@, cost)]
              ELSE quota' = quota
           /\ task' = [task EXCEPT ![t].pc = "done",
                         ![t].result = [success |-> ok,
                                        error |-> IF ok THEN "none"
                                                  ELSE "api_request_failed",
                                        cached |-> FALSE, cost |-> cost,
                                        data |-> IF ok THEN task[t].rid ELSE 0]]
    /\ UNCHANGED <<now, breaker, nrq, consecFail, lastErr>>
    /\ UNCHANGED nonPipeVars

\* process_request, steps 6 to 9: cost, cache write, usage log, quota.  The
\* write to Redis may fail (redis_ok false): _cache_response logs the failure
\* and goes on to the table.
Finish(t) ==
    /\ task[t].pc = "finish"
    /\ LET p == task[t].provider
           u == task[t].user
           ok == task[t].outcome = "ok"
           cost == calculate_cost(p, task[t].usage)
       IN  /\ IF ok
              THEN /\ \E redis_ok \in BOOLEAN :
                         redisCache' = IF redis_ok
                                       THEN RedisSetex(task[t].fp, task[t].rid, cost)
                                       ELSE redisCache
                   /\ dbCache' = DbInsert(task[t].fp, task[t].rid, cost)
              ELSE UNCHANGED <<redisCache, dbCache>>
           /\ log' = _log_request(task[t].rid, u, IF ok THEN "success" ELSE "failed", cost)
           /\ IF ok /\ u # NoUser
              THEN quota' = [quota EXCEPT ![<<u, p>>] = _update_quota_usage(@, cost)]
              ELSE quota' = quota
           /\ task' = [task EXCEPT ![t].pc = "done",
                         ![t].result = [success |-> ok,
                                        error |-> IF ok THEN "none"
                                                  ELSE "api_request_failed",
                                        cached |-> FALSE, cost |-> cost,
                                        data |-> IF ok THEN task[t].rid ELSE 0]]
    /\ UNCHANGED <<now, breaker, nrq, consecFail, lastErr>>
    /\ UNCHANGED nonPipeVars

Tick ==
    /\ now < MaxTime
    /\ now' = now + 1
    /\ UNCHANGED <<breaker, redisCache, dbCache, quota, log, task, nrq,
                   consecFail, lastErr>>
    /\ UNCHANGED nonPipeVars

\* One request at a time: every call of process_request returns before the
\* next one starts.
Next ==
    \/ \E a \in Arrivals : Start(1, a[1], a[2], a[3], MaxRequests)
    \/ CacheLookup(1)
    \/ BreakerCheck(1)
    \/ \E oc \in {"ok", "failed", "raised"}, us \in Usages : ApiCall(1, oc, us)
    \/ Record(1)
    \/ Finish(1)
    \/ Tick

Spec == Init /\ [][Next]_vars

\* Concurrent requests for one provider.
ConcArrivals == { <<"gemini", NoUser, PipeRequest(71, TRUE)>> }

NextConc ==
    \/ \E t \in Tasks, a \in ConcArrivals : Start(t, a[1], a[2], a[3], MaxConcRequests)
    \/ \E t \in Tasks : CacheLookup(t)
    \/ \E t \in Tasks : BreakerCheck(t)
    \/ \E t \in Tasks, oc \in {"ok", "failed", "raised"}, us \in Usages : ApiCall(t, oc, us)
    \/ \E t \in Tasks : Record(t)
    \/ \E t \in Tasks : Finish(t)
    \/ Tick

SpecConc == Init /\ [][NextConc]_vars

(***************************************************************************)
(* The sliding-window rate limiter, RedisConnectionManager.rate_limit_check.*)
(* The sorted set holds one member per request, named str(now) and scored  *)
(* now: two requests with the same timestamp are the same member, so the   *)
(* set of a key is the set of the timestamps added to it.                  *)
(***************************************************************************)
ZRemRangeByScore(zs, lo, hi) == { x \in zs : ~(lo <= x /\ x <= hi) }

ZAdd(zs, t) == zs \cup {t}

Oldest(zs) == CHOOSE x \in zs : \A y \in zs : x <= y

\* rate_limit_check(identifier, limit, window_seconds) at time t on the sorted
\* set zs: the set afterwards and the result.
rate_limit_check(zs, t, limit, window_seconds) ==
    LET window_start == t - window_seconds
        z1 == ZRemRangeByScore(zs, 0, window_start)
        current_count == Cardinality(z1)
    IN  IF current_count >= limit
        THEN [zset |-> z1, allowed |-> FALSE, count |-> current_count,
              remaining |-> 0,
              reset_time |-> IF z1 # {} THEN Oldest(z1) + window_seconds
                             ELSE t + window_seconds]
        ELSE [zset |-> ZAdd(z1, t), allowed |-> TRUE, count |-> current_count + 1,
              remaining |-> limit - current_count - 1,
              reset_time |-> t + window_seconds]

\* the allowed calls within the window_seconds before time t
AllowedWithin(t, window_seconds) ==
    Cardinality({ i \in DOMAIN rlHist : rlHist[i] > t - window_seconds })

RLInit ==
    /\ PipeInit
    /\ RLIdle
    /\ SecIdle
    /\ NormIdle
    /\ QuotaIdle
    /\ MwIdle
    /\ TxnIdle
    /\ SvcIdle

\* one call of rate_limit_check on the key
RLCheck ==
    /\ Len(rlHist) < MaxRLCalls
    /\ LET r == rate_limit_check(zset, now, RateLimit, WindowSeconds)
       IN  /\ zset' = r.zset
           /\ rlHist' = IF r.allowed THEN Append(rlHist, now) ELSE rlHist
           /\ rlLast' = [called |-> TRUE, allowed |-> r.allowed, at |-> now,
                         prior |-> AllowedWithin(now, WindowSeconds),
                         count |-> r.count, remaining |-> r.remaining,
                         reset_time |-> r.reset_time]
    /\ UNCHANGED <<pipeVars, secVars, normVars, quotaVars, mwVars, txnVars, svcVars>>

RLTick ==
    /\ now < MaxRLTime
    /\ now' = now + 1
    /\ UNCHANGED <<breaker, redisCache, dbCache, quota, log, task, nrq,
                   consecFail, lastErr>>
    /\ UNCHANGED <<rlVars, secVars, normVars, quotaVars, mwVars, txnVars, svcVars>>

RLNext == RLCheck \/ RLTick

SpecRL == RLInit /\ [][RLNext]_vars

(***************************************************************************)
(* The security validation of a POST request in dispatch.                  *)
(***************************************************************************)
SecInit ==
    /\ PipeInit
    /\ RLIdle
    /\ NormIdle
    /\ QuotaIdle
    /\ MwIdle
    /\ TxnIdle
    /\ SvcIdle
    /\ secIn \in SecRequests
    /\ secOut = NoSecOut

\* dispatch validates the request; a request that is not allowed is answered
\* by _create_security_error_response.
SecValidate ==
    /\ ~secOut.done
    /\ LET r == _perform_security_validation(secIn)
           analysed == secIn.body = "ok" /\ secIn.client_ok /\ secIn.structure_ok
       IN  secOut' = [done |-> TRUE, allowed |-> r.allowed, reason |-> r.reason,
                      threat_level |-> r.threat_level,
                      status |-> IF r.allowed THEN 0 ELSE SecurityStatus(r.reason),
                      analysed |-> analysed,
                      level |-> IF analysed THEN analyze_threat_level(secIn.content)
                                ELSE "low"]
    /\ UNCHANGED <<secIn, pipeVars, rlVars, normVars, quotaVars, mwVars, txnVars, svcVars>>

SecNext == SecValidate

SpecSec == SecInit /\ [][SecNext]_vars

(***************************************************************************)
(* The fingerprints of two requests.                                       *)
(***************************************************************************)
NormInit ==
    /\ PipeInit
    /\ RLIdle
    /\ SecIdle
    /\ QuotaIdle
    /\ MwIdle
    /\ TxnIdle
    /\ SvcIdle
    /\ normIn \in [pa : NormProviders, pb : NormProviders,
                    a : NormRequests, b : NormRequests]
    /\ normOut = NoNormOut

\* process_request, steps 1 and 2, on both requests
Fingerprint ==
    /\ ~normOut.done
    /\ LET va == validate_request(normIn.pa, normIn.a)
           vb == validate_request(normIn.pb, normIn.b)
       IN  normOut' = [done |-> TRUE,
                       fa |-> _generate_request_hash(normIn.pa, va),
                       fb |-> _generate_request_hash(normIn.pb, vb),
                       na |-> _normalize_request_for_caching(va),
                       nb |-> _normalize_request_for_caching(vb)]
    /\ UNCHANGED <<normIn, pipeVars, rlVars, secVars, quotaVars, mwVars, txnVars, svcVars>>

NormNext == Fingerprint

SpecNorm == NormInit /\ [][NormNext]_vars

(***************************************************************************)
(* The quota row of one (user, provider) pair over several days: spend is  *)
(* committed by _update_quota_usage and the row is consulted by            *)
(* _check_quota_limits.  last_daily_reset is set when the row is inserted  *)
(* (server_default now()); no statement of the program writes it again, so *)
(* the trigger reset_daily_quota, which fires after an update of that      *)
(* column, never runs.                                                     *)
(***************************************************************************)
DayLength == 2
MaxQuotaTime == 3
MaxQuotaCharges == 4

Day(t) == t \div DayLength

QuotaKey == <<1, "claude">>

\* _check_quota_limits on the row q: <<allowed, row afterwards>>; a missing
\* row is created with the default limits.
_check_quota_limits(q) ==
    LET q0 == IF ~q.present THEN NewQuota ELSE q
    IN  <<~(q0.is_daily_exceeded \/ q0.is_monthly_exceeded), q0>>

\* the reset columns after an access that inserts the row when it is missing
ResetColumns(k) ==
    IF quota[k].present THEN quotaReset
    ELSE [quotaReset EXCEPT ![k] = now]

\* a successful provider call of the user is charged to the row
QuotaCharge(us) ==
    /\ quota[QuotaKey].monthly_requests < MaxQuotaCharges
    /\ quota' = [quota EXCEPT ![QuotaKey] =
                    _update_quota_usage(@, calculate_cost("claude", us))]
    /\ quotaReset' = ResetColumns(QuotaKey)
    /\ UNCHANGED <<now, breaker, redisCache, dbCache, log, task, nrq,
                   consecFail, lastErr, qLast>>
    /\ UNCHANGED <<rlVars, secVars, normVars, mwVars, txnVars, svcVars>>

\* the middleware consults the row
QuotaCheck ==
    /\ LET r == _check_quota_limits(quota[QuotaKey])
       IN  /\ quota' = [quota EXCEPT ![QuotaKey] = r[2]]
           /\ qLast' = [called |-> TRUE, allowed |-> r[1], at |-> now,
                        reset_before |-> quotaReset[QuotaKey],
                        monthly_before |-> quota[QuotaKey].monthly_spent_usd,
                        daily_after |-> r[2].daily_spent_usd,
                        requests_after |-> r[2].daily_requests]
    /\ quotaReset' = ResetColumns(QuotaKey)
    /\ UNCHANGED <<now, breaker, redisCache, dbCache, log, task, nrq,
                   consecFail, lastErr>>
    /\ UNCHANGED <<rlVars, secVars, normVars, mwVars, txnVars, svcVars>>

QuotaTick ==
    /\ now < MaxQuotaTime
    /\ now' = now + 1
    /\ UNCHANGED <<breaker, redisCache, dbCache, quota, log, task, nrq,
                   consecFail, lastErr>>
    /\ UNCHANGED nonPipeVars

QuotaNext ==
    \/ \E us \in Usages : QuotaCharge(us)
    \/ QuotaCheck
    \/ QuotaTick

SpecQuota == Init /\ [][QuotaNext]_vars

(***************************************************************************)
(* The route handlers of the chat endpoints.                               *)
(***************************************************************************)

\* claude_chat_completion / openai_chat_completion: the HTTP status of the
\* answer built from the result of process_request.  Only the error
\* rate_limit_exceeded gets a status of its own; every other result is
\* returned as an AIProxyResponse, with the default status.
chat_completion_status(result) ==
    IF ~result.success /\ result.error = "rate_limit_exceeded" THEN 429 ELSE 200

(***************************************************************************)
(* AIProxyRateLimitMiddleware.dispatch for the POST requests of one        *)
(* session to the chat endpoint of claude, one request after the other.    *)
(* call_next runs the route handler, which calls process_request with the  *)
(* user id of extract_user_session, always None.                           *)
(***************************************************************************)
MaxMwRequests == 2
MaxMwForwards == 4
MwMinuteLimit == 1
MwHourLimit == 2
MinuteWindow == 2
HourWindow == 5

\* threat_multipliers, in tenths
ThreatMultiplier(level) ==
    IF level = "low" THEN 10
    ELSE IF level = "medium" THEN 5
    ELSE IF level = "high" THEN 2
    ELSE IF level = "critical" THEN 1
    ELSE 10

\* int(limit * threat_multiplier)
AdjustedLimit(limit, level) == (limit * ThreatMultiplier(level)) \div 10

\* getattr(request.state, 'threat_level', 'low'): nothing stores a threat
\* level on request.state (of the verdict of _perform_security_validation
\* dispatch reads only the entry "allowed"), so the default is what is read.
StateThreatLevel(verdict) == "low"

\* Faults of the store during one rate_limit_check: none, no connection
\* (get_connection raises before any command), or a failure of the last
\* command, expire, after the member has been added.
Faults == {"none", "connect", "expire"}

\* A faulty variant of rate_limit_check: a failure of the store is answered
\* as not allowed.
rate_limit_check_store_closed(zs, t, limit, window_seconds, fault) ==
    LET r == rate_limit_check(zs, t, limit, window_seconds)
        closed == [allowed |-> FALSE, count |-> 0, remaining |-> 0,
                   reset_time |-> t + window_seconds, failed |-> TRUE,
                   called |-> TRUE]
    IN  IF fault = "connect" THEN closed @@ [zset |-> zs]
        ELSE IF fault = "expire" /\ r.allowed THEN closed @@ [zset |-> r.zset]
        ELSE [allowed |-> r.allowed, count |-> r.count, remaining |-> r.remaining,
              reset_time |-> r.reset_time, failed |-> FALSE, called |-> TRUE,
              zset |-> r.zset]

\* rate_limit_check with its except branch: a failure is answered as allowed
\* with count 0.
rate_limit_check_store(zs, t, limit, window_seconds, fault) ==
    LET r == rate_limit_check(zs, t, limit, window_seconds)
        open == [allowed |-> TRUE, count |-> 0, remaining |-> limit,
                 reset_time |-> t + window_seconds, failed |-> TRUE,
                 called |-> TRUE]
    IN  IF fault = "connect" THEN open @@ [zset |-> zs]
        ELSE IF fault = "expire" /\ r.allowed THEN open @@ [zset |-> r.zset]
        ELSE [allowed |-> r.allowed, count |-> r.count, remaining |-> r.remaining,
              reset_time |-> r.reset_time, failed |-> FALSE, called |-> TRUE,
              zset |-> r.zset]

\* a result of rate_limit_check without the sorted set
Answer(r) == [k \in DOMAIN r \ {"zset"} |-> r[k]]

\* A faulty variant of _check_rate_limits: the hour window is decided before
\* the minute window.
_check_rate_limits_hour_first(z, t, threat_level, fault_minute, fault_hour) ==
    LET adjusted_minute_limit == AdjustedLimit(MwMinuteLimit, threat_level)
        adjusted_hour_limit == AdjustedLimit(MwHourLimit, threat_level)
        m == rate_limit_check_store(z["minute"], t, adjusted_minute_limit,
                                    MinuteWindow, fault_minute)
        h == rate_limit_check_store(z["hour"], t, adjusted_hour_limit,
                                    HourWindow, fault_hour)
    IN  IF ~h.allowed
        THEN [z |-> [z EXCEPT !["hour"] = h.zset],
              minute_result |-> [NoRateResult EXCEPT !.called = TRUE],
              hour_result |-> Answer(h),
              result |-> [allowed |-> FALSE, window |-> "hour",
                          limit |-> adjusted_hour_limit, count |-> h.count,
                          remaining |-> h.remaining, reset_time |-> h.reset_time,
                          threat_level |-> threat_level]]
        ELSE IF ~m.allowed
        THEN [z |-> [z EXCEPT !["minute"] = m.zset, !["hour"] = h.zset],
              minute_result |-> Answer(m), hour_result |-> Answer(h),
              result |-> [allowed |-> FALSE, window |-> "minute",
                          limit |-> adjusted_minute_limit, count |-> m.count,
                          remaining |-> m.remaining, reset_time |-> m.reset_time,
                          threat_level |-> threat_level]]
        ELSE [z |-> [z EXCEPT !["minute"] = m.zset, !["hour"] = h.zset],
              minute_result |-> Answer(m), hour_result |-> Answer(h),
              result |-> [allowed |-> TRUE,
                          minute_limit |-> adjusted_minute_limit,
                          minute_remaining |-> m.remaining,
                          hour_limit |-> adjusted_hour_limit,
                          hour_remaining |-> h.remaining,
                          threat_level |-> threat_level]]

\* _check_rate_limits on the sorted sets z of the two windows: the minute
\* window is checked first and the hour window only when the minute window
\* allows.
_check_rate_limits(z, t, threat_level, fault_minute, fault_hour) ==
    LET adjusted_minute_limit == AdjustedLimit(MwMinuteLimit, threat_level)
        adjusted_hour_limit == AdjustedLimit(MwHourLimit, threat_level)
        m == rate_limit_check_store(z["minute"], t, adjusted_minute_limit,
                                    MinuteWindow, fault_minute)
        h == rate_limit_check_store(z["hour"], t, adjusted_hour_limit,
                                    HourWindow, fault_hour)
    IN  IF ~m.allowed
        THEN [z |-> [z EXCEPT !["minute"] = m.zset],
              minute_result |-> Answer(m), hour_result |-> NoRateResult,
              result |-> [allowed |-> FALSE, window |-> "minute",
                          limit |-> adjusted_minute_limit, count |-> m.count,
                          remaining |-> m.remaining, reset_time |-> m.reset_time,
                          threat_level |-> threat_level]]
        ELSE IF ~h.allowed
        THEN [z |-> [z EXCEPT !["minute"] = m.zset, !["hour"] = h.zset],
              minute_result |-> Answer(m), hour_result |-> Answer(h),
              result |-> [allowed |-> FALSE, window |-> "hour",
                          limit |-> adjusted_hour_limit, count |-> h.count,
                          remaining |-> h.remaining, reset_time |-> h.reset_time,
                          threat_level |-> threat_level]]
        ELSE [z |-> [z EXCEPT !["minute"] = m.zset, !["hour"] = h.zset],
              minute_result |-> Answer(m), hour_result |-> Answer(h),
              result |-> [allowed |-> TRUE,
                          minute_limit |-> adjusted_minute_limit,
                          minute_remaining |-> m.remaining,
                          hour_limit |-> adjusted_hour_limit,
                          hour_remaining |-> h.remaining,
                          threat_level |-> threat_level]]

\* _create_rate_limit_response: the entries of the result it reads; a missing
\* one raises KeyError (status 0 here), else the response has status 429.
RateLimitResponseKeys ==
    {"minute_limit", "hour_limit", "minute_count", "hour_count",
     "reset_minute", "reset_hour"}

_create_rate_limit_response(rate_limit_result) ==
    IF RateLimitResponseKeys \subseteq DOMAIN rate_limit_result
    THEN [raised |-> FALSE, status_code |-> 429]
    ELSE [raised |-> TRUE, status_code |-> 0]

\* _update_rate_limit_counters: its parameters after self, and the arguments
\* dispatch calls it with; the call raises TypeError when the numbers differ.
UpdateCountersParams == <<"user_id", "session_id", "provider", "response_time_ms">>
UpdateCountersArgs ==
    <<"user_id", "session_id", "provider", "response_time", "redis_manager">>
UpdateCountersRaises == Len(UpdateCountersArgs) # Len(UpdateCountersParams)

\* The requests of the session: well-formed, with content that matches no
\* pattern, the pattern "ignore previous" (medium) or the pattern "exec("
\* (critical).
MwRequests ==
    [body : {"ok"}, client_ok : {TRUE}, structure_ok : {TRUE},
     content : [matched : {{}, {3}, {8}}, length : {100}, words : {5},
                max_freq : {5}]]

\* the quota row _check_quota_limits selects with the user id of
\* _extract_user_session, None
MwKey == <<NoUser, "claude">>

\* dispatch up to the security validation of the POST request
MwArrive(rq) ==
    /\ mw.pc \in {"idle", "done"}
    /\ mw.id < MaxMwRequests
    /\ LET security_result == _perform_security_validation(rq)
           base == [NoMw EXCEPT !.id = mw.id + 1,
                                !.classified = security_result.threat_level]
       IN  IF ~security_result.allowed
           THEN mw' = [base EXCEPT !.pc = "done",
                                   !.reason = security_result.reason,
                                   !.status = SecurityStatus(security_result.reason)]
           ELSE mw' = [base EXCEPT !.pc = "rate"]
    /\ UNCHANGED <<pipeVars, rlVars, secVars, normVars, quotaVars, mwZ, txnVars, svcVars>>

\* dispatch: _check_rate_limits; a rejection is handed to
\* _create_rate_limit_response, and when that raises, the except branch of
\* dispatch calls call_next.
MwRateLimit(fault_minute, fault_hour) ==
    /\ mw.pc = "rate"
    /\ LET c == _check_rate_limits(mwZ, now, StateThreatLevel(mw.classified),
                                   fault_minute, fault_hour)
           resp == _create_rate_limit_response(c.result)
           checked == [mw EXCEPT !.rate = c.result,
                                 !.minute_result = c.minute_result,
                                 !.hour_result = c.hour_result]
       IN  /\ ~c.hour_result.called => fault_hour = "none"
           /\ mwZ' = c.z
           /\ IF c.result.allowed
              THEN mw' = [checked EXCEPT !.pc = "quota"]
              ELSE IF resp.raised
              THEN mw' = [checked EXCEPT !.pc = "handler", !.in_except = TRUE,
                                         !.started = nrq]
              ELSE mw' = [checked EXCEPT !.pc = "done",
                                         !.status = resp.status_code]
    /\ UNCHANGED <<pipeVars, rlVars, secVars, normVars, quotaVars, txnVars, svcVars>>

\* dispatch: _check_quota_limits with user_id None, then call_next
MwQuota ==
    /\ mw.pc = "quota"
    /\ LET r == _check_quota_limits(quota[MwKey])
       IN  /\ quota' = [quota EXCEPT ![MwKey] = r[2]]
           /\ quotaReset' = ResetColumns(MwKey)
           /\ IF r[1]
              THEN mw' = [mw EXCEPT !.pc = "handler", !.started = nrq,
                                    !.quota_checked = TRUE,
                                    !.spent_at_check = r[2].daily_spent_usd]
              ELSE mw' = [mw EXCEPT !.pc = "done", !.status = 402,
                                    !.quota_checked = TRUE]
    /\ UNCHANGED <<now, breaker, redisCache, dbCache, log, task, nrq,
                   consecFail, lastErr, qLast, mwZ>>
    /\ UNCHANGED <<rlVars, secVars, normVars, txnVars, svcVars>>

\* call_next: the route handler calls process_request for claude with user
\* id None
MwHandler ==
    /\ mw.pc = "handler"
    /\ nrq = mw.started
    /\ Start(1, "claude", NoUser, PipeRequest(71, TRUE), MaxMwForwards)

\* call_next returns the response of the route handler.  In the try block,
\* dispatch goes on to _update_rate_limit_counters, and when that raises,
\* the except branch calls call_next once more.
MwReturn ==
    /\ mw.pc = "handler"
    /\ nrq = mw.started + 1
    /\ task[1].pc = "done"
    /\ LET result == task[1].result
           paid == IF result.success /\ ~result.cached THEN result.cost ELSE 0
           back == [mw EXCEPT !.forwards = @ + 1, !.charged = @ + paid,
                              !.status = chat_completion_status(result)]
       IN  IF ~mw.in_except /\ UpdateCountersRaises
           THEN mw' = [back EXCEPT !.in_except = TRUE, !.started = nrq]
           ELSE mw' = [back EXCEPT !.pc = "done"]
    /\ UNCHANGED <<pipeVars, rlVars, secVars, normVars, quotaVars, mwZ, txnVars, svcVars>>

\* the token usage the provider reports for the request of the session
MwUsage(oc) ==
    IF oc = "ok" THEN [prompt_tokens |-> 1, completion_tokens |-> 1] ELSE NoUsage

MwNext ==
    \/ \E rq \in MwRequests : MwArrive(rq)
    \/ \E fm, fh \in Faults : MwRateLimit(fm, fh)
    \/ MwQuota
    \/ MwHandler
    \/ CacheLookup(1)
    \/ BreakerCheck(1)
    \/ \E oc \in {"ok", "failed"} : ApiCall(1, oc, MwUsage(oc))
    \/ Record(1)
    \/ Finish(1)
    \/ MwReturn
    \/ Tick

SpecMw == Init /\ [][MwNext]_vars

(***************************************************************************)
(* The circuit breaker of one provider under concurrent requests and the   *)
(* manual reset of the endpoint /circuit-breaker/{provider}/reset.         *)
(***************************************************************************)
MaxCBRequests == 3

\* A faulty variant of reset_circuit_breaker: the failures counted so far
\* are kept.
reset_circuit_breaker_keeping_count(p) ==
    /\ breaker' = [breaker EXCEPT ![p] =
                      [@ EXCEPT !.state = "closed",
                                !.next_attempt_time = NoTime]]
    /\ UNCHANGED <<now, redisCache, dbCache, quota, log, task, nrq,
                   consecFail, lastErr>>
    /\ UNCHANGED nonPipeVars

\* reset_circuit_breaker, the assignments to the record
reset_record(cb) ==
    [cb EXCEPT !.state = "closed", !.failure_count = 0,
               !.next_attempt_time = NoTime]

\* reset_circuit_breaker: the record of the provider, which exists, is closed
\* by hand, whatever its state
reset_circuit_breaker(p) ==
    /\ breaker' = [breaker EXCEPT ![p] = reset_record(@)]
    /\ UNCHANGED <<now, redisCache, dbCache, quota, log, task, nrq,
                   consecFail, lastErr>>
    /\ UNCHANGED nonPipeVars

CBNext ==
    \/ \E t \in Tasks : Start(t, "gemini", NoUser, PipeRequest(71, TRUE), MaxCBRequests)
    \/ \E t \in Tasks : CacheLookup(t)
    \/ \E t \in Tasks : BreakerCheck(t)
    \/ \E t \in Tasks, oc \in {"ok", "raised"} : ApiCall(t, oc, MwUsage(oc))
    \/ \E t \in Tasks : Record(t)
    \/ \E t \in Tasks : Finish(t)
    \/ reset_circuit_breaker("gemini")
    \/ Tick

SpecCB == Init /\ [][CBNext]_vars

(***************************************************************************)
(* _check_rate_limits called again and again for one identifier, over a    *)
(* time long enough for the hour window to fill while the minute window    *)
(* empties.                                                                *)
(***************************************************************************)
MaxWinTime == 4
MaxWinChecks == 4

\* one call of _check_rate_limits; id counts the calls
WinCheck(fault_minute, fault_hour) ==
    /\ mw.id < MaxWinChecks
    /\ LET c == _check_rate_limits(mwZ, now, StateThreatLevel(mw.classified),
                                   fault_minute, fault_hour)
       IN  /\ ~c.hour_result.called => fault_hour = "none"
           /\ mwZ' = c.z
           /\ mw' = [mw EXCEPT !.id = @ + 1, !.rate = c.result,
                               !.minute_result = c.minute_result,
                               !.hour_result = c.hour_result]
    /\ UNCHANGED <<pipeVars, rlVars, secVars, normVars, quotaVars, txnVars, svcVars>>

WinTick ==
    /\ now < MaxWinTime
    /\ now' = now + 1
    /\ UNCHANGED <<breaker, redisCache, dbCache, quota, log, task, nrq,
                   consecFail, lastErr>>
    /\ UNCHANGED nonPipeVars

WinNext ==
    \/ \E fm, fh \in Faults : WinCheck(fm, fh)
    \/ WinTick

SpecWin == Init /\ [][WinNext]_vars

(***************************************************************************)
(* rate_limit_check called by several requests at once on one key.  Each   *)
(* command is awaited on its own (no MULTI, no script), so the commands of *)
(* two calls may interleave: a call takes its timestamp and removes the    *)
(* old members, then counts the members, then adds its own or rejects.     *)
(***************************************************************************)
ConcRateLimit == 1
MaxConcRLCalls == 3

\* now = utcnow().timestamp(); zremrangebyscore(identifier, 0, window_start)
RLRemove(c) ==
    /\ rlTxn.call[c].pc = "idle"
    /\ rlTxn.calls < MaxConcRLCalls
    /\ zset' = ZRemRangeByScore(zset, 0, now - WindowSeconds)
    /\ rlTxn' = [rlTxn EXCEPT !.calls = @ + 1,
                              !.call[c] = [pc |-> "zcard", now |-> now,
                                           current_count |-> 0]]
    /\ UNCHANGED <<rlHist, rlLast, qTxn, svcVars>>
    /\ UNCHANGED <<pipeVars, secVars, normVars, quotaVars, mwVars>>

\* current_count = zcard(identifier)
RLCount(c) ==
    /\ rlTxn.call[c].pc = "zcard"
    /\ rlTxn' = [rlTxn EXCEPT !.call[c].pc = "decide",
                              !.call[c].current_count = Cardinality(zset)]
    /\ UNCHANGED <<zset, rlHist, rlLast, qTxn, svcVars>>
    /\ UNCHANGED <<pipeVars, secVars, normVars, quotaVars, mwVars>>

\* the rejection when current_count >= limit, else zadd of the call's own
\* timestamp and the answer allowed; rlHist takes the timestamps of the calls
\* that were allowed
RLDecide(c) ==
    /\ rlTxn.call[c].pc = "decide"
    /\ LET t == rlTxn.call[c].now
           current_count == rlTxn.call[c].current_count
           allowed == ~(current_count >= ConcRateLimit)
       IN  /\ zset' = IF allowed THEN ZAdd(zset, t) ELSE zset
           /\ rlHist' = IF allowed THEN Append(rlHist, t) ELSE rlHist
           /\ rlLast' = [called |-> TRUE, allowed |-> allowed, at |-> t,
                         prior |-> AllowedWithin(t, WindowSeconds),
                         count |-> IF allowed THEN current_count + 1
                                   ELSE current_count,
                         remaining |-> IF allowed
                                       THEN ConcRateLimit - current_count - 1
                                       ELSE 0,
                         reset_time |-> IF ~allowed /\ zset # {}
                                        THEN Oldest(zset) + WindowSeconds
                                        ELSE t + WindowSeconds]
    /\ rlTxn' = [rlTxn EXCEPT !.call[c] = NoRLCall]
    /\ UNCHANGED <<qTxn, svcVars>>
    /\ UNCHANGED <<pipeVars, secVars, normVars, quotaVars, mwVars>>

RLConcNext ==
    \/ \E c \in Tasks : RLRemove(c)
    \/ \E c \in Tasks : RLCount(c)
    \/ \E c \in Tasks : RLDecide(c)
    \/ RLTick

SpecRLConc == Init /\ [][RLConcNext]_vars

(***************************************************************************)
(* _update_quota_usage run by several requests of one user at once.  Each  *)
(* call has a database session of its own: it selects the row, adds the    *)
(* cost to the values it read, and its commit writes the new values to the *)
(* row.  The row exists (the middleware has created it).                   *)
(***************************************************************************)
MaxQuotaCommits == 3

\* select(AIQuotaLimit) of the session of task c, for a call of cost us
QuotaSelect(c, us) ==
    /\ qTxn.session[c].pc = "idle"
    /\ quota[QuotaKey].present
    /\ qTxn.commits + Cardinality({ d \in Tasks : qTxn.session[d].pc # "idle" })
          < MaxQuotaCommits
    /\ qTxn' = [qTxn EXCEPT !.session[c] =
                   [pc |-> "selected", row |-> quota[QuotaKey],
                    cost |-> calculate_cost("claude", us)]]
    /\ UNCHANGED <<pipeVars, rlVars, secVars, normVars, quotaVars, mwVars, rlTxn, svcVars>>

\* the additions on the selected row, the flags, and the commit
QuotaCommit(c) ==
    /\ qTxn.session[c].pc = "selected"
    /\ quota' = [quota EXCEPT ![QuotaKey] =
                    _update_quota_usage(qTxn.session[c].row, qTxn.session[c].cost)]
    /\ qTxn' = [qTxn EXCEPT !.session[c] = NoQuotaTxn,
                            !.commits = @ + 1,
                            !.total = @ + qTxn.session[c].cost]
    /\ UNCHANGED <<now, breaker, redisCache, dbCache, log, task, nrq,
                   consecFail, lastErr>>
    /\ UNCHANGED <<rlVars, secVars, normVars, quotaVars, mwVars, rlTxn, svcVars>>

QuotaConcNext ==
    \/ QuotaCheck
    \/ \E c \in Tasks, us \in Usages : QuotaSelect(c, us)
    \/ \E c \in Tasks : QuotaCommit(c)
    \/ QuotaTick

SpecQuotaConc == Init /\ [][QuotaConcNext]_vars

(***************************************************************************)
(* HttpService._make_request: the retry loop of one call after another.    *)
(***************************************************************************)
MaxRetries == 2

Methods == {"GET", "POST", "PUT", "PATCH", "DELETE", "HEAD"}

StateChanging == {"POST", "PUT", "PATCH", "DELETE"}

\* what one pass of the loop body can meet: a 2xx response, a
\* TimeoutException, an HTTPStatusError of raise_for_status, another
\* RequestError (connection, protocol), or any other exception
AttemptOutcomes == {"ok", "timeout", "status", "request_error", "unexpected"}

StatusCodes == {302, 400, 404, 429, 500, 503}

\* max_retries of a call: the argument when given, else the setting
\* circuit_breaker_failure_threshold; at most 1 for a state-changing method
max_retries_of(method, given, retries) ==
    LET default_retries == FailureThreshold
        max_retries == IF given THEN retries ELSE default_retries
    IN  IF method \in StateChanging
        THEN (IF max_retries < 1 THEN max_retries ELSE 1)
        ELSE max_retries

\* A faulty variant of retry_on_status: client errors are tried again as well.
retry_on_status_any(status_code, attempt, max_retries) ==
    status_code >= 400 /\ attempt < max_retries

\* the test of the HTTPStatusError handler for another attempt
retry_on_status(status_code, attempt, max_retries) ==
    status_code >= 500 /\ attempt < max_retries

\* the call made, after the validation of the url, the data and the method
HttpCall(method, given, retries) ==
    /\ http.pc \in {"idle", "returned", "raised"}
    /\ http' = [NoHttp EXCEPT !.pc = "attempt", !.method = method,
                              !.max_retries = max_retries_of(method, given, retries)]
    /\ UNCHANGED <<pipeVars, rlVars, secVars, normVars, quotaVars, mwVars,
                   txnVars, rc, cbTxn>>

\* one pass of the loop body, with the sleep before the next pass. HEAD
\* passes the check of the method and then has no branch in the loop: the
\* ValueError raised there is caught as an unexpected exception.
HttpAttempt(outcome, status_code) ==
    /\ http.pc = "attempt"
    /\ http.method = "HEAD" => outcome = "unexpected"
    /\ outcome # "status" => status_code = 500
    /\ LET attempt == http.attempt
           max_retries == http.max_retries
           again == [http EXCEPT !.attempt = attempt + 1, !.cause = outcome,
                                 !.status_code = IF outcome = "status"
                                                 THEN status_code ELSE 0]
           raise(code) == [http EXCEPT !.pc = "raised", !.cause = outcome,
                                       !.status_code = code]
       IN  http' =
             CASE outcome = "ok" ->
                    [http EXCEPT !.pc = "returned", !.cause = outcome,
                                 !.status_code = 0]
               [] outcome = "timeout" ->
                    IF attempt = max_retries THEN raise(408) ELSE again
               [] outcome = "status" ->
                    IF retry_on_status(status_code, attempt, max_retries)
                    THEN again
                    ELSE raise(status_code)
               [] outcome = "request_error" ->
                    IF attempt < max_retries THEN again ELSE raise(500)
               [] OTHER -> raise(500)
    /\ UNCHANGED <<pipeVars, rlVars, secVars, normVars, quotaVars, mwVars,
                   txnVars, rc, cbTxn>>

HttpNext ==
    \/ \E method \in Methods, given \in BOOLEAN, retries \in 0..MaxRetries :
          HttpCall(method, given, retries)
    \/ \E outcome \in AttemptOutcomes, status_code \in StatusCodes :
          HttpAttempt(outcome, status_code)

\* every pass of the loop ends: the client carries a timeout and the sleep
\* is finite
SpecHttp ==
    /\ Init
    /\ [][HttpNext]_vars
    /\ WF_vars(\E outcome \in AttemptOutcomes, status_code \in StatusCodes :
                  HttpAttempt(outcome, status_code))

(***************************************************************************)
(* The breaker record of one provider under database sessions that run     *)
(* side by side: each of _is_circuit_open, _record_circuit_breaker_success, *)
(* _record_circuit_breaker_failure and reset_circuit_breaker opens its own  *)
(* session, selects the record, assigns to the object and commits, and the  *)
(* commit writes the columns whose value differs from the value selected.   *)
(***************************************************************************)
MaxCBOps == 4

BreakerOps == {"check", "success", "failure", "reset"}

\* the record object after the assignments of the operation
run_op(op, cb, t) ==
    CASE op = "check" -> _is_circuit_open(cb, t)[2]
      [] op = "success" -> _record_circuit_breaker_success(cb, t)
      [] op = "failure" -> _record_circuit_breaker_failure(cb, t)
      [] OTHER -> reset_record(cb)

\* the UPDATE of the commit: the columns that the session changed
flush(selected, changed, stored) ==
    [col \in DOMAIN stored |->
        IF changed[col] # selected[col] THEN changed[col] ELSE stored[col]]

\* a session selects the record of the provider
CBSelect(c, op) ==
    /\ cbTxn.session[c].pc = "idle"
    /\ cbTxn.ops < MaxCBOps
    /\ cbTxn' = [cbTxn EXCEPT !.ops = @ + 1,
                              !.session[c] = [pc |-> "selected", op |-> op,
                                              row |-> breaker["gemini"]]]
    /\ UNCHANGED <<pipeVars, rlVars, secVars, normVars, quotaVars, mwVars,
                   txnVars, http, rc>>

\* the session assigns and commits
CBCommit(c) ==
    /\ cbTxn.session[c].pc = "selected"
    /\ LET selected == cbTxn.session[c].row
           changed == run_op(cbTxn.session[c].op, selected, now)
       IN  breaker' = [breaker EXCEPT !["gemini"] = flush(selected, changed, @)]
    /\ cbTxn' = [cbTxn EXCEPT !.session[c] = NoBreakerTxn]
    /\ UNCHANGED <<now, redisCache, dbCache, quota, log, task, nrq,
                   consecFail, lastErr>>
    /\ UNCHANGED <<rlVars, secVars, normVars, quotaVars, mwVars, txnVars, http, rc>>

CBConcNext ==
    \/ \E c \in Tasks, op \in BreakerOps : CBSelect(c, op)
    \/ \E c \in Tasks : CBCommit(c)
    \/ Tick

SpecCBConc == Init /\ [][CBConcNext]_vars

(***************************************************************************)
(* AIProxyServiceManager.get_service_status called between the requests of *)
(* a provider whose adapter raises.                                        *)
(***************************************************************************)

\* get_service_status: for every service of the manager, _is_circuit_open
\* and a count over the usage log of the last hour
get_service_status ==
    /\ breaker' = [p \in Providers |-> _is_circuit_open(breaker[p], now)[2]]
    /\ UNCHANGED <<now, redisCache, dbCache, quota, log, task, nrq,
                   consecFail, lastErr>>
    /\ UNCHANGED nonPipeVars

StatusNext ==
    \/ \E t \in Tasks : Start(t, "gemini", NoUser, PipeRequest(71, TRUE), MaxCBRequests)
    \/ \E t \in Tasks : CacheLookup(t)
    \/ \E t \in Tasks : BreakerCheck(t)
    \/ \E t \in Tasks, oc \in {"ok", "raised"} : ApiCall(t, oc, MwUsage(oc))
    \/ \E t \in Tasks : Record(t)
    \/ \E t \in Tasks : Finish(t)
    \/ get_service_status
    \/ Tick

SpecStatus == Init /\ [][StatusNext]_vars

(***************************************************************************)
(* RedisConnectionManager: get_client with its connection circuit, and the *)
(* operations that fail on the client it returned.  The clock counts in    *)
(* units of which circuit_timeout is a few.                                *)
(***************************************************************************)
circuit_threshold == 5
circuit_timeout == 2
health_check_interval == 1
MaxRcTime == 4
MaxRcCalls == 8
MaxCircuitFailures == 7

\* RedisConnectionManager._record_circuit_breaker_failure
redis_record_circuit_breaker_failure(r, t) ==
    LET r1 == [r EXCEPT !.circuit_failures = @ + 1, !.circuit_last_failure = t]
    IN  IF r1.circuit_failures >= circuit_threshold
        THEN [r1 EXCEPT !.circuit_open = TRUE]
        ELSE r1

\* A faulty variant of _should_attempt_reset: the reset is tried as soon as
\* circuit_timeout seconds have passed.
_should_attempt_reset_early(r, t) ==
    /\ r.circuit_open
    /\ r.circuit_last_failure # NoTime
    /\ t - r.circuit_last_failure >= circuit_timeout

_should_attempt_reset(r, t) ==
    /\ r.circuit_open
    /\ r.circuit_last_failure # NoTime
    /\ t - r.circuit_last_failure > circuit_timeout

\* initialize, Redis being enabled: the old client is closed, a new one is
\* made and pinged; ok tells whether the ping went through
initialize(r, ok, t) ==
    LET r1 == [r EXCEPT !.inits = Append(@, ok)]
    IN  IF ok
        THEN [r1 EXCEPT !.is_connected = TRUE, !.health_monitor = TRUE,
                        !.last_health_check = NoTime,
                        !.circuit_open = FALSE, !.circuit_failures = 0]
        ELSE redis_record_circuit_breaker_failure(
                 [r1 EXCEPT !.is_connected = FALSE, !.health_monitor = FALSE,
                            !.last_health_check = NoTime], t)

\* RedisHealthMonitor.needs_health_check
needs_health_check(r, t) ==
    \/ r.last_health_check = NoTime
    \/ t - r.last_health_check > health_check_interval

\* get_client: the record afterwards; client tells whether a client was
\* returned.  init_ok is the result of the initialize of the circuit or of
\* the missing connection, healthy the result of the health check, and
\* reinit_ok the result of the initialize after a failed health check.
get_client(r, t, init_ok, healthy, reinit_ok) ==
    LET r0 == [r EXCEPT !.calls = @ + 1, !.at = t,
                        !.found_open = r.circuit_open,
                        !.inits = <<>>, !.client = FALSE]
        blocked == r0.circuit_open /\ ~_should_attempt_reset(r0, t)
        r1 == IF r0.circuit_open /\ _should_attempt_reset(r0, t)
              THEN initialize(r0, init_ok, t)
              ELSE r0
        gave_up1 == r0.circuit_open /\ ~init_ok
        r2 == IF ~r1.is_connected THEN initialize(r1, init_ok, t) ELSE r1
        gave_up2 == ~r1.is_connected /\ ~init_ok
        check == r2.health_monitor /\ needs_health_check(r2, t)
        r3 == IF ~check THEN r2
              ELSE IF healthy THEN [r2 EXCEPT !.last_health_check = t]
              ELSE initialize(r2, reinit_ok, t)
        gave_up3 == check /\ ~healthy /\ ~reinit_ok
    IN  IF blocked THEN r0
        ELSE IF gave_up1 THEN r1
        ELSE IF gave_up2 THEN r2
        ELSE IF gave_up3 THEN r3
        ELSE [r3 EXCEPT !.client = TRUE]

RcGetClient(init_ok, healthy, reinit_ok) ==
    /\ rc.calls < MaxRcCalls
    /\ LET r == get_client(rc, now, init_ok, healthy, reinit_ok)
       IN  /\ r.circuit_failures <= MaxCircuitFailures
           /\ rc' = r
    /\ UNCHANGED <<pipeVars, rlVars, secVars, normVars, quotaVars, mwVars,
                   txnVars, http, cbTxn>>

\* get_connection: the operation run on the client that get_client returned
\* raises
RcOperationFails ==
    /\ rc.client
    /\ rc.circuit_failures < MaxCircuitFailures
    /\ rc' = redis_record_circuit_breaker_failure(rc, now)
    /\ UNCHANGED <<pipeVars, rlVars, secVars, normVars, quotaVars, mwVars,
                   txnVars, http, cbTxn>>

RcTick ==
    /\ now < MaxRcTime
    /\ now' = now + 1
    /\ UNCHANGED <<breaker, redisCache, dbCache, quota, log, task, nrq,
                   consecFail, lastErr>>
    /\ UNCHANGED nonPipeVars

RcNext ==
    \/ \E init_ok, healthy, reinit_ok \in BOOLEAN :
          RcGetClient(init_ok, healthy, reinit_ok)
    \/ RcOperationFails
    \/ RcTick

SpecRedis == Init /\ [][RcNext]_vars

(***************************************************************************)
(* Properties of the request pipeline.                                     *)
(***************************************************************************)

\* C1: after failure_threshold provider calls in a row have errored for a
\* provider, a request that reaches the breaker check of that provider before
\* the recovery timeout has elapsed is rejected with service_unavailable and
\* the provider is not contacted for it.
C1_TripRejects ==
    \A t \in Tasks :
        (task[t].checked /\ task[t].trip) =>
            /\ task[t].pc = "done"
            /\ task[t].result.error = "service_unavailable"
            /\ ~task[t].called

\* C2: at most one request that was let through as the half-open probe of a
\* provider is with the provider (contacted or about to be, outcome not yet
\* recorded) at any time.
C2_SingleProbe ==
    \A p \in Providers :
        Cardinality({ t \in Tasks : /\ task[t].provider = p
                                    /\ task[t].probe
                                    /\ task[t].pc \in {"call", "record"} }) <= 1

\* C4: a request that arrives when the quota record of its (user, provider)
\* pair has daily_spent_usd >= daily_limit_usd ends with quota_exceeded.
C4_QuotaCeiling ==
    \A t \in Tasks :
        (task[t].pc = "done" /\ task[t].qx) =>
            task[t].result.error = "quota_exceeded"

\* C5: the step of process_request that finds a cached response leaves the
\* spent totals of every quota record and every circuit breaker record as
\* they were, has neither consulted the breaker nor contacted the provider,
\* and appends exactly one usage log entry, of status cached, for the request.
C5_CacheHitFrame ==
    [][\A t \in Tasks :
        (task[t].pc = "cache" /\ task'[t].pc = "done") =>
            /\ task'[t].result.cached
            /\ \A k \in DOMAIN quota :
                  /\ quota'[k].daily_spent_usd = quota[k].daily_spent_usd
                  /\ quota'[k].monthly_spent_usd = quota[k].monthly_spent_usd
            /\ breaker' = breaker
            /\ ~task'[t].checked /\ ~task'[t].called
            /\ Len(log') = Len(log) + 1
            /\ SubSeq(log', 1, Len(log)) = log
            /\ log'[Len(log')].rid = task[t].rid
            /\ log'[Len(log')].status = "cached"
            /\ LogCount(task[t].rid) = 0]_vars

\* A request of a user with a quota record that has spend on it was answered
\* from the cache.
C5_Witness ==
    \E t \in Tasks :
        /\ task[t].pc = "done" /\ task[t].result.cached
        /\ task[t].user # NoUser
        /\ quota[<<task[t].user, task[t].provider>>].daily_spent_usd > 0
        /\ log[Len(log)].status = "cached"

\* C7: when a request is sent twice by the same user and the first call
\* succeeded at the provider, the second response is served from the cache
\* with cost 0 and the quota spend equals the cost of the first call.
C7_SecondCallFree ==
    \A t \in Tasks :
        ( /\ nrq = 2 /\ task[t].pc = "done" /\ task[t].rid = 2
          /\ Len(log) >= 1 /\ log[1].status = "success"
          /\ log[1].user = task[t].user /\ task[t].user # NoUser
          /\ task[t].result.data = 1 ) =>
            /\ task[t].result.cached
            /\ task[t].result.cost = 0
            /\ quota[<<task[t].user, task[t].provider>>].daily_spent_usd = log[1].cost

\* C10: every request that has ended in a rejection or a failure has exactly
\* one usage log entry.
C10_RejectionsLogged ==
    \A t \in Tasks :
        (task[t].pc = "done" /\ ~task[t].result.success) =>
            LogCount(task[t].rid) = 1

\* C3: a call of rate_limit_check is allowed exactly when fewer than the
\* limit of calls were allowed in the window before it, calls with the same
\* timestamp included.
C3_SlidingWindow ==
    rlLast.called => (rlLast.allowed <=> rlLast.prior < RateLimit)

\* the severity analyze_threat_level attaches to the rule of pattern i
PatternSeverity(i) == EscalateForPattern("low", i)

\* the highest severity among the rules that the content triggers
MaxTriggered(c) ==
    LET sevs == { PatternSeverity(i) : i \in c.matched }
                \cup (IF c.length > max_message_length THEN {"medium"} ELSE {})
                \cup (IF ExcessiveRepetition(c) THEN {"medium"} ELSE {})
                \cup {"low"}
    IN  CHOOSE l \in sevs : \A m \in sevs : LevelIndex(l) >= LevelIndex(m)

\* C8: a well-formed request of an accepted client whose content matches the
\* prompt-injection pattern (ignore previous ...) and the script pattern is
\* classified critical and rejected with status 422.
C8_InjectionPlusScriptRejected ==
    (secOut.done /\ secOut.analysed /\ {1, 3} \subseteq secIn.content.matched) =>
        /\ secOut.level = "critical"
        /\ ~secOut.allowed
        /\ secOut.status = 422

\* C9: the level returned by analyze_threat_level is the highest severity
\* among the rules the content triggers.
C9_MaxSeverity ==
    (secOut.done /\ secOut.analysed) => secOut.level = MaxTriggered(secIn.content)

\* the requests a and b agree on everything but the fields in the set f
SameExcept(a, b, f) ==
    \A k \in DOMAIN a : k \notin f => a[k] = b[k]

\* the range a provider accepts for the temperature, in hundredths
TempCeiling(p) == IF p = "claude" THEN 100 ELSE 200

InRange(p, tp) ==
    IF tp < 0 THEN 0 ELSE IF tp > TempCeiling(p) THEN TempCeiling(p) ELSE tp

\* the model a request names, the default of the provider when it names none
NamedModel(p, rq) ==
    IF rq.model # Missing THEN rq.model
    ELSE IF p = "claude" THEN DefaultModel ELSE "gpt-3.5-turbo"

\* the tenth nearest to a temperature in hundredths, the even one on a tie
NearestTenth(tp) ==
    CHOOSE k \in 0 .. 21 :
        \/ 10 * k - tp < 5 /\ tp - 10 * k < 5
        \/ (10 * k - tp = 5 \/ tp - 10 * k = 5) /\ k % 2 = 0

Expiry(e) == IF "exp" \in DOMAIN e THEN e.exp ELSE e.expires_at

\* C11: the response a cache lookup returns is that of an entry, in Redis or
\* in the table, whose expiry time is after the current time.
C11_NoExpiredHit ==
    [][\A t \in Tasks :
        (task[t].pc = "cache" /\ task'[t].pc = "done") =>
            /\ \E e \in redisCache \cup dbCache :
                  /\ e.fp = task[t].fp
                  /\ e.data = task'[t].result.data
                  /\ Expiry(e) > now
            /\ ~\E e \in redisCache \cup dbCache :
                  /\ e.fp = task[t].fp
                  /\ e.data = task'[t].result.data
                  /\ Expiry(e) <= now]_vars

\* A request was answered from the cache while the table holds an expired
\* row for its fingerprint.
C11_Witness ==
    \E t \in Tasks :
        /\ task[t].pc = "done" /\ task[t].result.cached
        /\ \E e \in dbCache : e.fp = task[t].fp /\ e.expires_at <= now

\* A request was answered from the row of the table, Redis holding nothing
\* for its fingerprint.
C11_WitnessTable ==
    \E t \in Tasks :
        /\ task[t].pc = "done" /\ task[t].result.cached
        /\ \E e \in dbCache : e.fp = task[t].fp /\ e.hit_count > 0

\* C13: a request rejected because the breaker of its provider is open is
\* answered with error service_unavailable and HTTP status 503.
C13_OpenIs503 ==
    \A t \in Tasks :
        (task[t].pc = "done" /\ task[t].checked /\ ~task[t].called) =>
            /\ task[t].result.error = "service_unavailable"
            /\ chat_completion_status(task[t].result) = 503

(***************************************************************************)
(* Properties of the circuit breakers.                                     *)
(***************************************************************************)

\* C17: the breaker check and the success or failure report of a request
\* leave the breaker record of every other provider as it was, and a request
\* is rejected at the breaker check only when the record of its own provider
\* is open.
C17_Independent ==
    [][\A t \in Tasks :
        (task[t].pc \in {"breaker", "record"} /\ task'[t] # task[t]) =>
            /\ \A q \in Providers \ {task[t].provider} : breaker'[q] = breaker[q]
            /\ task'[t].result.error = "service_unavailable" =>
                  breaker[task[t].provider].state = "open"]_vars

\* A request for claude was sent to the provider and succeeded while the
\* breaker of gemini is open and its recovery time has not come.
C17_Witness ==
    \E t \in Tasks :
        /\ task[t].provider = "claude"
        /\ task[t].pc = "done" /\ task[t].called /\ task[t].result.success
        /\ breaker["gemini"].state = "open"
        /\ now < breaker["gemini"].next_attempt_time
        /\ breaker["claude"].state = "closed"

(***************************************************************************)
(* Properties of a failed provider call.                                   *)
(***************************************************************************)

\* C18: a request whose provider call failed has exactly one usage log entry,
\* of status failed; the steps that handle the failure leave both cache
\* stores and every quota record as they were; and every cache entry holds
\* the response of a request whose provider call succeeded.
C18_FailedCall ==
    /\ [](\A t \in Tasks :
            (task[t].pc = "done" /\ task[t].called /\ task[t].outcome # "ok") =>
                /\ LogCount(task[t].rid) = 1
                /\ \A i \in DOMAIN log :
                      log[i].rid = task[t].rid => log[i].status = "failed"
                /\ ~task[t].result.success)
    /\ [](\A e \in redisCache \cup dbCache :
            \E i \in DOMAIN log : log[i].rid = e.data /\ log[i].status = "success")
    /\ [][\A t \in Tasks :
            (task[t].called /\ task[t].outcome # "ok" /\ task'[t] # task[t]
               /\ task[t].pc \in {"record", "finish"}) =>
                /\ redisCache' = redisCache
                /\ dbCache' = dbCache
                /\ quota' = quota]_vars

\* The provider call of a user's request failed after an earlier request of
\* the user had succeeded and had been cached and charged.
C18_Witness ==
    \E t \in Tasks :
        /\ task[t].pc = "done" /\ task[t].called /\ task[t].outcome = "failed"
        /\ task[t].user # NoUser
        /\ quota[<<task[t].user, task[t].provider>>].daily_spent_usd > 0
        /\ dbCache # {}
        /\ log[Len(log)].rid = task[t].rid

(***************************************************************************)
(* Properties of the security validation.                                  *)
(***************************************************************************)

\* C20: a request of a client that validate_client_info refuses is rejected
\* with reason blocked_client and status 403, whatever its body is.
C20_ClientFirst ==
    (secOut.done /\ ~secIn.client_ok) =>
        /\ ~secOut.allowed
        /\ secOut.reason = "blocked_client"
        /\ secOut.status = 403

(***************************************************************************)
(* Properties of the quota rows.                                           *)
(***************************************************************************)

\* C16: a quota check on a date other than that of last_daily_reset decides
\* on a daily spend and a daily request count of zero, so that a row that
\* was over its daily limit the day before is admitted (its monthly spend
\* being under the monthly limit).
C16_LazyDailyReset ==
    ( /\ qLast.called
      /\ qLast.reset_before # NoTime
      /\ Day(qLast.at) # Day(qLast.reset_before)
      /\ qLast.monthly_before < MonthlyLimit ) =>
        /\ qLast.daily_after = 0
        /\ qLast.requests_after = 0
        /\ qLast.allowed

(***************************************************************************)
(* Properties of dispatch.                                                 *)
(***************************************************************************)

\* C12: a request for which _check_rate_limits reports not allowed is not
\* handed to call_next and is answered with status 429.
C12_RateLimited429 ==
    (mw.minute_result.called /\ ~mw.rate.allowed) =>
        /\ mw.pc # "handler"
        /\ mw.forwards = 0
        /\ mw.pc = "done" => mw.status = 429

\* C14: a rate_limit_check during which the store failed answers allowed
\* with count 0, and a request both of whose checks met a failing store goes
\* on to the quota check and the handler: it is not answered 429, and it ends
\* forwarded or refused by the quota check.
C14_FailOpen ==
    /\ (mw.minute_result.called /\ mw.minute_result.failed) =>
          (mw.minute_result.allowed /\ mw.minute_result.count = 0)
    /\ (mw.hour_result.called /\ mw.hour_result.failed) =>
          (mw.hour_result.allowed /\ mw.hour_result.count = 0)
    /\ (mw.minute_result.called /\ mw.minute_result.failed /\ mw.hour_result.failed) =>
          /\ mw.rate.allowed
          /\ mw.pc \in {"quota", "handler", "done"}
          /\ mw.pc = "done" =>
                (mw.status # 429 /\ (mw.forwards >= 1 \/ mw.status = 402))

\* The second request of the session met a failing store at both checks and
\* was forwarded, at a time at which the minute window already held as many
\* requests as the limit allows.
C14_Witness ==
    /\ mw.id = 2 /\ mw.pc = "done"
    /\ mw.minute_result.failed /\ mw.hour_result.failed
    /\ mw.forwards >= 1
    /\ Cardinality({ x \in mwZ["minute"] : x > now - MinuteWindow }) >= MwMinuteLimit

\* C15: the limits a request is checked against are the base limits scaled
\* by the multiplier of the threat level the security validation gave it.
C15_ThreatScaledLimits ==
    mw.minute_result.called =>
        /\ mw.rate.threat_level = mw.classified
        /\ mw.rate.allowed =>
              /\ mw.rate.minute_limit = AdjustedLimit(MwMinuteLimit, mw.classified)
              /\ mw.rate.hour_limit = AdjustedLimit(MwHourLimit, mw.classified)
        /\ (~mw.rate.allowed /\ mw.rate.window = "minute") =>
              mw.rate.limit = AdjustedLimit(MwMinuteLimit, mw.classified)
        /\ (~mw.rate.allowed /\ mw.rate.window = "hour") =>
              mw.rate.limit = AdjustedLimit(MwHourLimit, mw.classified)

\* C19: when the request that passed the quota check has been answered, the
\* quota row the check consulted has grown, in its daily and in its monthly
\* spend, by the cost of the successful provider calls made for the request.
C19_SpendCommitted ==
    (mw.pc = "done" /\ mw.quota_checked /\ mw.charged > 0) =>
        /\ quota[MwKey].daily_spent_usd = mw.spent_at_check + mw.charged
        /\ quota[MwKey].monthly_spent_usd >= mw.charged

(***************************************************************************)
(* Properties of the circuit breaker record.                               *)
(***************************************************************************)

\* C21: a failure report adds one to failure_count and sets
\* last_failure_time to the current time; when the new count has reached
\* failure_threshold and the state was closed or half_open, the state becomes
\* open and next_attempt_time is the current time plus the recovery timeout;
\* when the new count is below the threshold, the state and next_attempt_time
\* are left as they were.
C21_FailureReport ==
    [][\A t \in Tasks :
        (task[t].pc = "record" /\ task[t].outcome = "raised" /\ task'[t].pc = "done") =>
            LET b == breaker[task[t].provider]
                b2 == breaker'[task[t].provider]
            IN  /\ b2.failure_count = b.failure_count + 1
                /\ b2.last_failure_time = now
                /\ (b2.failure_count >= b.failure_threshold
                      /\ b.state \in {"closed", "half_open"}) =>
                      /\ b2.state = "open"
                      /\ b2.next_attempt_time = now + b.recovery_timeout_seconds
                /\ b2.failure_count < b.failure_threshold =>
                      /\ b2.state = b.state
                      /\ b2.next_attempt_time = b.next_attempt_time]_vars

\* The failure of a request has just brought the count to the threshold and
\* opened the circuit.
C21_Witness ==
    \E t \in Tasks :
        /\ task[t].pc = "done" /\ task[t].outcome = "raised"
        /\ breaker[task[t].provider].state = "open"
        /\ breaker[task[t].provider].failure_count = FailureThreshold
        /\ breaker[task[t].provider].last_failure_time = now
        /\ breaker[task[t].provider].next_attempt_time = now + RecoveryTimeout

\* The failure of the probe of a half-open circuit has opened it again, one
\* failure above the threshold.
C21_WitnessReopen ==
    \E t \in Tasks :
        /\ task[t].pc = "done" /\ task[t].outcome = "raised" /\ task[t].probe
        /\ breaker[task[t].provider].state = "open"
        /\ breaker[task[t].provider].failure_count > FailureThreshold
        /\ breaker[task[t].provider].last_failure_time = now

\* C22: a record leaves the state open only in a breaker check of its
\* provider made at or after next_attempt_time, which makes it half_open, or
\* in a manual reset, which closes it; a record becomes half_open in no other
\* step; and a breaker check made before next_attempt_time leaves the record
\* open and answers that the circuit is open.
C22_LazyHalfOpen ==
    [][\A p \in Providers :
        LET check == \E t \in Tasks :
                        /\ task[t].pc = "breaker" /\ task[t].provider = p
                        /\ task'[t].pc = "call"
                        /\ breaker[p].state = "open"
                        /\ now >= breaker[p].next_attempt_time
                        /\ breaker'[p].state = "half_open"
            reset == /\ task' = task
                     /\ breaker'[p].state = "closed"
                     /\ breaker'[p].failure_count = 0
                     /\ breaker'[p].next_attempt_time = NoTime
        IN  /\ (breaker[p].state = "open" /\ breaker'[p].state # "open") =>
                  (check \/ reset)
            /\ (breaker[p].state # "half_open" /\ breaker'[p].state = "half_open") =>
                  check
            /\ \A t \in Tasks :
                  ( /\ task[t].pc = "breaker" /\ task[t].provider = p
                    /\ task'[t] # task[t]
                    /\ breaker[p].state = "open"
                    /\ now < breaker[p].next_attempt_time ) =>
                      /\ breaker'[p].state = "open"
                      /\ task'[t].pc = "done"
                      /\ task'[t].result.error = "service_unavailable"]_vars

\* A breaker check made when the recovery time had come has made the record
\* half_open and let its request through as the probe.
C22_Witness ==
    \E t \in Tasks :
        /\ task[t].pc = "call" /\ task[t].probe
        /\ breaker[task[t].provider].state = "half_open"
        /\ breaker[task[t].provider].next_attempt_time # NoTime
        /\ now >= breaker[task[t].provider].next_attempt_time

\* C23: a success report adds one to success_count and sets
\* last_success_time to the current time; on a half_open record it sets the
\* state to closed and failure_count to 0; an open record stays open.
C23_SuccessReport ==
    [][\A t \in Tasks :
        (task[t].pc = "record" /\ task[t].outcome # "raised" /\ task'[t].pc = "finish") =>
            LET b == breaker[task[t].provider]
                b2 == breaker'[task[t].provider]
            IN  /\ b2.success_count = b.success_count + 1
                /\ b2.last_success_time = now
                /\ b.state = "half_open" => (b2.state = "closed" /\ b2.failure_count = 0)
                /\ b.state = "open" => b2.state = "open"]_vars

\* The success of a request was reported after the failures of others had
\* opened the circuit, and the circuit is still open.
C23_Witness ==
    \E t \in Tasks :
        /\ task[t].pc = "finish" /\ task[t].outcome = "ok"
        /\ breaker[task[t].provider].state = "open"
        /\ breaker[task[t].provider].last_success_time = now
        /\ breaker[task[t].provider].last_failure_time # NoTime
        /\ breaker[task[t].provider].last_failure_time < now

\* The success of the probe has closed a half-open circuit: the record is
\* closed with no failure counted, a failure and the later success on it.
C23_WitnessClosed ==
    \E t \in Tasks :
        /\ task[t].pc = "finish" /\ task[t].outcome = "ok" /\ task[t].probe
        /\ breaker[task[t].provider].state = "closed"
        /\ breaker[task[t].provider].failure_count = 0
        /\ breaker[task[t].provider].last_success_time = now

InWindow(zs, window_seconds) == { x \in zs : x > now - window_seconds }

\* C25: _check_rate_limits allows a request exactly when the check of the
\* minute window and the check of the hour window both allowed it, which,
\* the store working, is when neither window holds as many requests as its
\* limit; the minute window is decided first: when both windows are full the
\* rejection names the minute window, a rejection that names the minute
\* window comes before any check of the hour window, and a rejection names
\* the hour window only after the minute window allowed the request.
C25_BothWindows ==
    [][mw'.id = mw.id + 1 =>
        LET minute_full == Cardinality(InWindow(mwZ["minute"], MinuteWindow)) >= MwMinuteLimit
            hour_full == Cardinality(InWindow(mwZ["hour"], HourWindow)) >= MwHourLimit
            store_ok == ~mw'.minute_result.failed /\ ~mw'.hour_result.failed
        IN  /\ mw'.rate.allowed <=>
                  /\ mw'.minute_result.allowed
                  /\ mw'.hour_result.called /\ mw'.hour_result.allowed
            /\ store_ok => (mw'.rate.allowed <=> (~minute_full /\ ~hour_full))
            /\ (store_ok /\ minute_full /\ hour_full) =>
                  (~mw'.rate.allowed /\ mw'.rate.window = "minute")
            /\ (~mw'.rate.allowed /\ mw'.rate.window = "minute") =>
                  (~mw'.minute_result.allowed /\ ~mw'.hour_result.called)
            /\ (~mw'.rate.allowed /\ mw'.rate.window = "hour") =>
                  (mw'.minute_result.allowed /\ ~mw'.hour_result.allowed)]_vars

\* A request was rejected by the minute window at a time at which the hour
\* window, too, held as many requests as its limit.
C25_Witness ==
    /\ mw.minute_result.called /\ ~mw.minute_result.failed
    /\ ~mw.rate.allowed /\ mw.rate.window = "minute"
    /\ Cardinality(InWindow(mwZ["hour"], HourWindow)) >= MwHourLimit

\* A request that the minute window allowed was rejected by the hour window.
C25_WitnessHour ==
    /\ mw.minute_result.called /\ mw.minute_result.allowed
    /\ ~mw.minute_result.failed
    /\ ~mw.rate.allowed /\ mw.rate.window = "hour"

\* C26: with several calls of rate_limit_check in progress on one key, the
\* calls that were allowed with a timestamp inside the window that ends at
\* the current time are never more than the limit.
C26_AtomicWindow ==
    Cardinality({ i \in DOMAIN rlHist : rlHist[i] > now - WindowSeconds })
        <= ConcRateLimit

(***************************************************************************)
(* Properties of concurrent quota updates.                                 *)
(***************************************************************************)

\* C27: when no call of _update_quota_usage is in progress, the quota row
\* holds, in its daily and in its monthly spend, the sum of the costs of the
\* calls committed so far, and in its two request counters their number.
C27_NoLostUpdate ==
    (\A c \in Tasks : qTxn.session[c].pc = "idle") =>
        /\ quota[QuotaKey].daily_spent_usd = qTxn.total
        /\ quota[QuotaKey].monthly_spent_usd = qTxn.total
        /\ quota[QuotaKey].daily_requests = qTxn.commits
        /\ quota[QuotaKey].monthly_requests = qTxn.commits

\* C28: in every quota row, is_daily_exceeded tells whether daily_spent_usd
\* has reached daily_limit_usd and is_monthly_exceeded whether
\* monthly_spent_usd has reached monthly_limit_usd; and the quota check
\* refuses a request exactly when the daily or the monthly spend of the row
\* has reached its limit.
C28_FlagsMatchSpend ==
    /\ \A k \in DOMAIN quota :
          quota[k].present =>
              /\ quota[k].is_daily_exceeded <=>
                    (quota[k].daily_spent_usd >= quota[k].daily_limit_usd)
              /\ quota[k].is_monthly_exceeded <=>
                    (quota[k].monthly_spent_usd >= quota[k].monthly_limit_usd)
    /\ qLast.called =>
          (qLast.allowed <=> ~(\/ qLast.daily_after >= DailyLimit
                               \/ qLast.monthly_before >= MonthlyLimit))

\* The quota check has refused a request on a row whose daily spend has
\* reached the daily limit while its monthly spend is under the monthly limit.
C28_Witness ==
    /\ qLast.called /\ ~qLast.allowed
    /\ quota[QuotaKey].is_daily_exceeded /\ ~quota[QuotaKey].is_monthly_exceeded
    /\ quota[QuotaKey].daily_spent_usd >= DailyLimit
    /\ quota[QuotaKey].monthly_spent_usd < MonthlyLimit

\* The quota check has refused a request on a row whose monthly spend has
\* reached the monthly limit.
C28_WitnessMonthly ==
    /\ qLast.called /\ ~qLast.allowed
    /\ quota[QuotaKey].is_monthly_exceeded
    /\ qLast.monthly_before >= MonthlyLimit

(***************************************************************************)
(* Properties of the hit accounting of the cache.                          *)
(***************************************************************************)

\* C29: the step that answers a request from the cache adds one to the
\* hit_count of the table row of its fingerprint and sets the row's
\* last_accessed to the current time, whichever store served the hit; and
\* when Redis held no live entry for the fingerprint, Redis holds one after
\* the step.
C29_HitCounted ==
    [][\A t \in Tasks :
        (task[t].pc = "cache" /\ task'[t].pc = "done") =>
            /\ \A e \in dbCache :
                  e.fp = task[t].fp =>
                      \E e2 \in dbCache' :
                          /\ e2.fp = e.fp
                          /\ e2.hit_count = e.hit_count + 1
                          /\ e2.last_accessed = now
            /\ RedisGet(task[t].fp) = {} =>
                  \E r \in redisCache' : r.fp = task[t].fp /\ r.exp > now]_vars

(***************************************************************************)
(* Properties of the rejection of critical requests.                       *)
(***************************************************************************)

\* contents that analyze_threat_level classifies low, high, medium, critical
LevelSamples ==
    { [matched |-> m, length |-> 100, words |-> 5, max_freq |-> 5] :
        m \in {{}, {1}, {3}, {8}} }

\* the verdict on a well-formed request of an accepted client with content c
VerdictOn(c) ==
    _perform_security_validation(
        [body |-> "ok", client_ok |-> TRUE, structure_ok |-> TRUE, content |-> c])

\* C30: a request classified critical ends rejected with reason
\* critical_threat (status 422), without a rate-limit check, a quota check or
\* a call of call_next; neither its arrival nor any step taken while it is
\* the request of dispatch changes the sorted sets of the rate limiter, the
\* quota rows, the cache stores, the breaker records, the usage log or the
\* tasks of process_request; and the validation rejects a well-formed request
\* of an accepted client exactly when its content is classified critical.
C30_CriticalRejected ==
    /\ [](mw.classified = "critical" =>
            /\ mw.pc = "done"
            /\ mw.reason = "critical_threat" /\ mw.status = 422
            /\ mw.forwards = 0
            /\ ~mw.minute_result.called
            /\ ~mw.quota_checked)
    /\ [](mw.classified \in {"low", "medium", "high"} => mw.reason = "none")
    /\ [](\A c \in LevelSamples :
            /\ analyze_threat_level(c) \in {"low", "medium", "high"} =>
                  VerdictOn(c).allowed
            /\ analyze_threat_level(c) = "critical" =>
                  (~VerdictOn(c).allowed /\ VerdictOn(c).reason = "critical_threat"))
    /\ [][mw'.classified = "critical" =>
            /\ mwZ' = mwZ
            /\ quota' = quota /\ quotaReset' = quotaReset
            /\ redisCache' = redisCache /\ dbCache' = dbCache
            /\ breaker' = breaker
            /\ log' = log /\ task' = task /\ nrq' = nrq]_vars

\* A critical request was rejected after an earlier request of the session
\* had been forwarded and had left its timestamp in both windows.
C30_Witness ==
    /\ mw.id = 2 /\ mw.classified = "critical" /\ mw.pc = "done"
    /\ mw.status = 422
    /\ mwZ["minute"] # {} /\ mwZ["hour"] # {}
    /\ nrq >= 1 /\ quota[MwKey].present

\* C31: the manual reset of a provider's breaker, from any state, leaves the
\* record closed with failure_count 0 and no next_attempt_time; the
\* success_count, the other columns and the records of the other providers
\* are unchanged; and a check of a closed breaker never rejects, so the next
\* request of the provider reaches the provider call.
C31_ResetCloses ==
    [][ /\ (task' = task /\ breaker' # breaker) =>
              /\ breaker'["gemini"] =
                     [breaker["gemini"] EXCEPT !.state = "closed",
                                               !.failure_count = 0,
                                               !.next_attempt_time = NoTime]
              /\ breaker'["gemini"].success_count = breaker["gemini"].success_count
              /\ \A p \in Providers \ {"gemini"} : breaker'[p] = breaker[p]
        /\ \A t \in Tasks :
              (task[t].pc = "breaker" /\ task'[t].pc # "breaker"
                  /\ breaker[task[t].provider].state = "closed") =>
                  task'[t].pc = "call" ]_vars

\* FailureThreshold requests have failed, the breaker has been reset by hand
\* (a success would have left next_attempt_time in place), and the next
\* request has passed its check
C31_Witness ==
    /\ breaker["gemini"].state = "closed"
    /\ breaker["gemini"].failure_count = 0
    /\ breaker["gemini"].next_attempt_time = NoTime
    /\ breaker["gemini"].last_failure_time # NoTime
    /\ Cardinality({ i \in DOMAIN log : log[i].status = "failed" }) >= FailureThreshold
    /\ \E t \in Tasks : task[t].pc = "call" /\ task[t].checked

\* C32: a call of _make_request makes at most max_retries + 1 passes of its
\* loop (at most 2 for POST, PUT, PATCH and DELETE) and then has returned a
\* result or raised an error; another pass follows only a timeout, a request
\* error or a 5xx response, and a 4xx response ends the call at once.
C32_BoundedRetries ==
    /\ [](/\ http.attempt <= http.max_retries
          /\ http.method \in StateChanging => http.attempt <= 1)
    /\ [][ /\ (http.pc = "attempt" /\ http'.attempt = http.attempt + 1) =>
                 \/ http'.cause \in {"timeout", "request_error"}
                 \/ http'.cause = "status" /\ http'.status_code >= 500
           /\ (http.pc = "attempt" /\ http'.cause = "status"
                  /\ http'.status_code >= 400 /\ http'.status_code < 500) =>
                 (http'.pc = "raised" /\ http'.attempt = http.attempt) ]_vars
    /\ (http.pc = "attempt" ~> http.pc \in {"returned", "raised"})

\* a GET has been given up after its third pass timed out
C32_Witness ==
    /\ http.pc = "raised" /\ http.method = "GET"
    /\ http.max_retries = 2 /\ http.attempt = 2
    /\ http.cause = "timeout" /\ http.status_code = 408

\* a POST asked for with two retries has been given up after its second pass
C32_WitnessPost ==
    /\ http.pc = "raised" /\ http.method = "POST"
    /\ http.max_retries = 1 /\ http.attempt = 1
    /\ http.cause = "status" /\ http.status_code = 503

\* C33: the step that answers a user's request from the cache adds one to the
\* daily and the monthly request counter of the user's quota record for the
\* provider and leaves the spent totals as they were.
C33_HitCountsRequest ==
    [][\A t \in Tasks :
        (task[t].pc = "cache" /\ task'[t].pc = "done"
            /\ task'[t].result.cached /\ task[t].user # NoUser) =>
            LET k == <<task[t].user, task[t].provider>>
            IN  /\ quota'[k].daily_requests = quota[k].daily_requests + 1
                /\ quota'[k].monthly_requests = quota[k].monthly_requests + 1
                /\ quota'[k].daily_spent_usd = quota[k].daily_spent_usd
                /\ quota'[k].monthly_spent_usd = quota[k].monthly_spent_usd]_vars

\* C34: for a request that passed the security, the rate-limit and the quota
\* check, the route handler has returned at most once, and exactly once when
\* dispatch has returned: what dispatch does after call_next never makes it
\* call the handler again.
C34_HandlerOnce ==
    (mw.rate.allowed /\ mw.quota_checked) =>
        /\ mw.forwards <= 1
        /\ (mw.pc = "done" /\ mw.status # 402) => mw.forwards = 1

\* C35: in every reachable state, a breaker record in state open or
\* half_open has failure_count >= failure_threshold and a next_attempt_time,
\* and a record in state closed has failure_count < failure_threshold.
C35_BreakerInvariant ==
    \A p \in Providers :
        /\ breaker[p].state \in {"open", "half_open"} =>
              /\ breaker[p].failure_count >= breaker[p].failure_threshold
              /\ breaker[p].next_attempt_time # NoTime
        /\ breaker[p].state = "closed" =>
              breaker[p].failure_count < breaker[p].failure_threshold

\* C36: failure_count goes down only when a success closes a half_open
\* record and when the record is reset by hand; a success reported for a
\* closed record leaves failure_count and the state as they were, and the
\* failure that brings failure_count to failure_threshold opens the record
\* whatever successes were reported before it.
C36_CountKept ==
    [][\A p \in Providers :
        /\ breaker'[p].failure_count < breaker[p].failure_count =>
              \/ /\ breaker[p].state = "half_open"
                 /\ breaker'[p].state = "closed"
                 /\ breaker'[p].success_count = breaker[p].success_count + 1
              \/ /\ task' = task
                 /\ breaker'[p] = reset_record(breaker[p])
        /\ (breaker[p].state = "closed"
               /\ breaker'[p].success_count = breaker[p].success_count + 1) =>
              /\ breaker'[p].failure_count = breaker[p].failure_count
              /\ breaker'[p].state = "closed"
        /\ (breaker'[p].failure_count = breaker[p].failure_count + 1
               /\ breaker'[p].failure_count >= breaker[p].failure_threshold) =>
              breaker'[p].state = "open"]_vars

\* a failure, then a success, then the failure that opened the breaker
C36_Witness ==
    /\ breaker["gemini"].state = "open"
    /\ breaker["gemini"].failure_count = FailureThreshold
    /\ breaker["gemini"].success_count >= 1
    /\ \E i, j, k \in DOMAIN log :
          /\ i < j /\ j < k
          /\ log[i].status = "failed"
          /\ log[j].status = "success"
          /\ log[k].status = "failed"

\* C37: a call of get_service_status (the only step here that leaves every
\* request where it is and the clock as it is) changes no breaker record.
C37_StatusReadOnly ==
    [][(task' = task /\ now' = now) => breaker' = breaker]_vars

\* C38: when the last successful provider call for the fingerprint was
\* reported less than the TTL ago and its response has been cached (no
\* request is between its report and its cache write), a lookup of the
\* fingerprint is answered from the cache with the response of a successful
\* call.
C38_CachedFound ==
    [][\A t \in Tasks :
        (/\ task[t].pc = "cache" /\ task'[t].pc # "cache"
         /\ breaker[task[t].provider].last_success_time # NoTime
         /\ now < breaker[task[t].provider].last_success_time + CacheTTL
         /\ \A s \in Tasks : task[s].pc # "finish") =>
            /\ task'[t].pc = "done"
            /\ task'[t].result.cached
            /\ \E i \in DOMAIN log :
                  /\ log[i].status = "success"
                  /\ log[i].rid = task'[t].result.data]_vars

\* C39: a call of _check_rate_limits that rejects the request, the store
\* working, leaves the sorted sets of the minute key and of the hour key as
\* they were, apart from the members that have left the window.
C39_RejectionFree ==
    [][(/\ mw'.id = mw.id + 1
        /\ ~mw'.rate.allowed
        /\ ~mw'.minute_result.failed /\ ~mw'.hour_result.failed) =>
            /\ mwZ'["minute"] \in {mwZ["minute"], InWindow(mwZ["minute"], MinuteWindow)}
            /\ mwZ'["hour"] \in {mwZ["hour"], InWindow(mwZ["hour"], HourWindow)}]_vars

\* C40: the connection circuit is open exactly from the failure that brings
\* circuit_failures to circuit_threshold; a call of get_client that finds
\* the circuit open no more than circuit_timeout after the last failure
\* returns no client, calls initialize not at all and leaves the manager as
\* it was; a call that finds it open later calls initialize, once when that
\* call fails (the circuit then stays open and no client is returned); and
\* the circuit is closed and circuit_failures set to 0 only by a call of
\* initialize that succeeded.
C40_ConnectionCircuit ==
    /\ [](rc.circuit_open <=> rc.circuit_failures >= circuit_threshold)
    /\ [][ LET called == rc'.calls = rc.calls + 1
               since == now - rc.circuit_last_failure
           IN  /\ (called /\ rc.circuit_open /\ since <= circuit_timeout) =>
                     /\ ~rc'.client
                     /\ rc'.inits = <<>>
                     /\ rc' = [rc EXCEPT !.calls = @ + 1, !.at = now,
                                         !.found_open = TRUE, !.inits = <<>>,
                                         !.client = FALSE]
               /\ (called /\ rc.circuit_open /\ since > circuit_timeout) =>
                     /\ Len(rc'.inits) >= 1
                     /\ ~rc'.inits[1] =>
                           /\ Len(rc'.inits) = 1
                           /\ ~rc'.client
                           /\ rc'.circuit_open
                           /\ rc'.circuit_failures = rc.circuit_failures + 1
                     /\ rc'.inits[1] => ~rc'.circuit_open
               /\ (rc'.circuit_failures < rc.circuit_failures
                      \/ (rc.circuit_open /\ ~rc'.circuit_open)) =>
                     /\ called
                     /\ \E i \in DOMAIN rc'.inits : rc'.inits[i]
               /\ (called /\ \E i \in DOMAIN rc'.inits : rc'.inits[i]) =>
                     /\ ~rc'.circuit_open
                     /\ rc'.circuit_failures <= 1 ]_vars

\* a call of get_client made exactly circuit_timeout after the failure that
\* opened the circuit was turned away without a connection attempt
C40_Witness ==
    /\ rc.found_open /\ rc.circuit_open
    /\ rc.at = rc.circuit_last_failure + circuit_timeout
    /\ rc.inits = <<>> /\ ~rc.client

\* a call made later re-initialized the connection and closed the circuit
C40_WitnessClosed ==
    /\ rc.found_open /\ ~rc.circuit_open
    /\ rc.circuit_failures = 0
    /\ rc.inits = <<TRUE>> /\ rc.client

\* a call made later tried once, failed, and left the circuit open
C40_WitnessStillOpen ==
    /\ rc.found_open /\ rc.circuit_open
    /\ rc.inits = <<FALSE>> /\ ~rc.client
    /\ rc.at = rc.circuit_last_failure
    /\ rc.circuit_failures > circuit_threshold

====
